---------------------------- MODULE Spec2Model ----------------------------
(***************************************************************************)
(* Model of the Dockerfile analyzer (internal/analyzer) and optimizer      *)
(* (internal/optimizer) of docker-image-optimizer.                         *)
(*                                                                         *)
(* Texts are TLA+ strings holding the same characters as the Go strings;   *)
(* the helpers of the Go "strings" package are written out character by    *)
(* character.  Indexes are 1-based (Go's are 0-based); an absent index is  *)
(* 0 (Go's is -1).                                                         *)
(***************************************************************************)
EXTENDS Integers, Sequences, FiniteSets, TLC

(***************************************************************************)
(* Go "strings" helpers                                                    *)
(***************************************************************************)
\* s[a..b] clipped to the string, as a Go slice expression guarded by its
\* bounds checks
Sub(s, a, b) ==
    LET lo == IF a < 1 THEN 1 ELSE a
        hi == IF b > Len(s) THEN Len(s) ELSE b
    IN IF lo > hi THEN "" ELSE SubSeq(s, lo, hi)

Char(s, i) == Sub(s, i, i)

LowerLetters == "abcdefghijklmnopqrstuvwxyz"
UpperLetters == "ABCDEFGHIJKLMNOPQRSTUVWXYZ"
Digits == "0123456789"

LowerSet == {Char(LowerLetters, i) : i \in 1..26}
UpperSet == {Char(UpperLetters, i) : i \in 1..26}
DigitSet == {Char(Digits, i) : i \in 1..10}

UpperOf == [c \in LowerSet |-> Char(UpperLetters, CHOOSE i \in 1..26 : Char(LowerLetters, i) = c)]
LowerOf == [c \in UpperSet |-> Char(LowerLetters, CHOOSE i \in 1..26 : Char(UpperLetters, i) = c)]

\* unicode.IsSpace restricted to the characters a TLA+ string can hold
IsSpace(c) == c \in {" ", "\t", "\n", "\r", "\f"}

\* the regexp class \w
IsWord(c) == c \in LowerSet \cup UpperSet \cup DigitSet \cup {"_"}

\* the regexp class \s
IsReSpace(c) == c \in {" ", "\t", "\n", "\r", "\f"}

UpperChar(c) == IF c \in LowerSet THEN UpperOf[c] ELSE c
LowerChar(c) == IF c \in UpperSet THEN LowerOf[c] ELSE c

\* s[lo..hi] with every character mapped (by halves, to keep the nesting flat)
RECURSIVE MapChars(_, _, _, _)
MapChars(s, lo, hi, up) ==
    IF lo > hi THEN ""
    ELSE IF lo = hi THEN (IF up THEN UpperChar(Char(s, lo)) ELSE LowerChar(Char(s, lo)))
    ELSE LET mid == (lo + hi) \div 2
         IN MapChars(s, lo, mid, up) \o MapChars(s, mid + 1, hi, up)

ToUpper(s) == MapChars(s, 1, Len(s), TRUE)
ToLower(s) == MapChars(s, 1, Len(s), FALSE)

RECURSIVE FirstNonSpace(_, _)
FirstNonSpace(s, i) ==
    IF i > Len(s) THEN i
    ELSE IF IsSpace(Char(s, i)) THEN FirstNonSpace(s, i + 1) ELSE i

RECURSIVE LastNonSpace(_, _)
LastNonSpace(s, i) ==
    IF i < 1 THEN 0
    ELSE IF IsSpace(Char(s, i)) THEN LastNonSpace(s, i - 1) ELSE i

TrimSpace(s) == Sub(s, FirstNonSpace(s, 1), LastNonSpace(s, Len(s)))

HasPrefix(s, p) == Len(s) >= Len(p) /\ Sub(s, 1, Len(p)) = p
HasSuffix(s, p) == Len(s) >= Len(p) /\ Sub(s, Len(s) - Len(p) + 1, Len(s)) = p
TrimSuffix(s, p) == IF HasSuffix(s, p) THEN Sub(s, 1, Len(s) - Len(p)) ELSE s

\* sub occurs in s at position k
OccursAt(s, sub, k) == SubSeq(s, k, k + Len(sub) - 1) = sub

\* first position >= i where sub occurs in s, 0 when there is none
IndexFrom(s, sub, i) ==
    LET hits == {k \in i..(Len(s) - Len(sub) + 1) : OccursAt(s, sub, k)}
    IN IF hits = {} THEN 0 ELSE CHOOSE k \in hits : \A m \in hits : k <= m

Index(s, sub) == IndexFrom(s, sub, 1)
Contains(s, sub) == \E k \in 1..(Len(s) - Len(sub) + 1) : OccursAt(s, sub, k)

RECURSIVE SplitFrom(_, _, _)
SplitFrom(s, sep, i) ==
    LET k == IndexFrom(s, sep, i)
    IN IF k = 0 THEN <<Sub(s, i, Len(s))>>
       ELSE <<Sub(s, i, k - 1)>> \o SplitFrom(s, sep, k + Len(sep))

Split(s, sep) == SplitFrom(s, sep, 1)

RECURSIVE Join(_, _)
Join(parts, sep) ==
    IF Len(parts) = 0 THEN ""
    ELSE IF Len(parts) = 1 THEN parts[1]
    ELSE parts[1] \o sep \o Join(Tail(parts), sep)

RECURSIVE FieldEnd(_, _)
FieldEnd(s, i) ==
    IF i > Len(s) THEN i
    ELSE IF IsSpace(Char(s, i)) THEN i ELSE FieldEnd(s, i + 1)

RECURSIVE FieldsFrom(_, _)
FieldsFrom(s, i) ==
    LET b == FirstNonSpace(s, i)
    IN IF b > Len(s) THEN <<>>
       ELSE LET e == FieldEnd(s, b)
            IN <<Sub(s, b, e - 1)>> \o FieldsFrom(s, e)

Fields(s) == FieldsFrom(s, 1)

RECURSIVE ReplaceFrom(_, _, _, _)
ReplaceFrom(s, old, new, i) ==
    LET k == IndexFrom(s, old, i)
    IN IF k = 0 THEN Sub(s, i, Len(s))
       ELSE Sub(s, i, k - 1) \o new \o ReplaceFrom(s, old, new, k + Len(old))

ReplaceAll(s, old, new) == ReplaceFrom(s, old, new, 1)

(***************************************************************************)
(* analyzer: parseDockerfile                                               *)
(***************************************************************************)
RECURSIVE WordEnd(_, _)
WordEnd(s, i) ==
    IF i > Len(s) THEN i
    ELSE IF IsWord(Char(s, i)) THEN WordEnd(s, i + 1) ELSE i

RECURSIVE ReSpaceEnd(_, _)
ReSpaceEnd(s, i) ==
    IF i > Len(s) THEN i
    ELSE IF IsReSpace(Char(s, i)) THEN ReSpaceEnd(s, i + 1) ELSE i

\* instructionRegex ^(\w+)\s+(.*) : <<>> when the line does not match,
\* else <<matches[1], matches[2]>>
instructionRegex(s) ==
    LET w == WordEnd(s, 1)
        e == ReSpaceEnd(s, w)
        nl == IndexFrom(s, "\n", e)
        stop == IF nl = 0 THEN Len(s) ELSE nl - 1
    IN IF w > 1 /\ e > w THEN <<Sub(s, 1, w - 1), Sub(s, e, stop)>> ELSE <<>>

parseBaseImage(args) ==
    LET parts == Fields(args)
    IN IF Len(parts) = 0 THEN "" ELSE ToLower(parts[1])

RECURSIVE StageNameFrom(_, _)
StageNameFrom(parts, i) ==
    IF i > Len(parts) THEN ""
    ELSE IF ToLower(parts[i]) = "as" /\ i + 1 <= Len(parts) THEN parts[i + 1]
    ELSE StageNameFrom(parts, i + 1)

parseStageName(args) == StageNameFrom(Fields(args), 1)

\* the inner continuation loop: it advances the loop variable i, which the
\* enclosing range statement resets on its next iteration
RECURSIVE JoinContinuation(_, _, _)
JoinContinuation(lines, trimmed, i) ==
    IF HasSuffix(trimmed, "\\") /\ i + 1 <= Len(lines)
    THEN JoinContinuation(lines,
                          TrimSuffix(trimmed, "\\") \o " " \o TrimSpace(lines[i + 1]),
                          i + 1)
    ELSE <<trimmed, i>>

\* st.cur is the currentStage pointer: <<>> is nil, <<stage>> a stage
ParseInit == [Stages |-> <<>>, Instructions |-> <<>>, BaseImages |-> <<>>,
              cur |-> <<>>, stageCount |-> 0]

\* the tail of the loop body, from the FROM test on: inst is the instruction
\* just built, baseImage and stageName what parseBaseImage and parseStageName
\* return for its arguments (they are used for a FROM only)
AddInstruction(st, inst, baseImage, stageName) ==
    LET isFrom == inst.Command = "FROM"
        opened == IF isFrom
                  THEN <<[Name |-> stageName,
                          BaseImage |-> baseImage,
                          Instructions |-> <<>>,
                          StartLine |-> inst.Line]>>
                  ELSE st.cur
    IN [Stages |-> IF isFrom THEN st.Stages \o st.cur ELSE st.Stages,
        Instructions |-> Append(st.Instructions, inst),
        BaseImages |-> IF isFrom THEN Append(st.BaseImages, baseImage)
                       ELSE st.BaseImages,
        cur |-> IF Len(opened) = 0 THEN opened
                ELSE <<[opened[1] EXCEPT !.Instructions = Append(@, inst)]>>,
        stageCount |-> IF isFrom THEN st.stageCount + 1 ELSE st.stageCount]

\* one iteration of the range loop over lines, at (1-based) index i; jc is
\* <<trimmed, i>> after the continuation loop
ParseLine(lines, i, st) ==
    LET trimmed0 == TrimSpace(lines[i])
        matched(jc, matches) ==
            IF Len(matches) < 2 THEN st
            ELSE AddInstruction(st,
                                [Command |-> ToUpper(matches[1]), Args |-> matches[2],
                                 Line |-> jc[2], Raw |-> jc[1]],
                                parseBaseImage(matches[2]),
                                parseStageName(matches[2]))
        joined(jc) == matched(jc, instructionRegex(jc[1]))
    IN IF trimmed0 = "" \/ HasPrefix(trimmed0, "#") THEN st
       ELSE joined(JoinContinuation(lines, trimmed0, i))

\* the range loop; each iteration's state is computed before the next one
\* starts (stageCount is a count of FROM lines, so the test always holds)
RECURSIVE ParseLoop(_, _, _)
ParseLoop(lines, i, st) ==
    IF i > Len(lines) THEN st
    ELSE LET next == ParseLine(lines, i, st)
         IN IF next.stageCount >= 0 THEN ParseLoop(lines, i + 1, next) ELSE next

\* a faulty variant of parseDockerfile: multi-stage needs more than two stages
parseDockerfile_OffByOne(lines) ==
    LET pdf(st) == [Stages |-> st.Stages \o st.cur,
                    Instructions |-> st.Instructions,
                    BaseImages |-> st.BaseImages,
                    HasMultiStage |-> st.stageCount > 2]
    IN pdf(ParseLoop(lines, 1, ParseInit))

parseDockerfile(lines) ==
    LET pdf(st) == [Stages |-> st.Stages \o st.cur,
                    Instructions |-> st.Instructions,
                    BaseImages |-> st.BaseImages,
                    HasMultiStage |-> st.stageCount > 1]
    IN pdf(ParseLoop(lines, 1, ParseInit))

(***************************************************************************)
(* analyzer: the rules.  An Issue keeps the fields the program branches    *)
(* on (ID, Severity, Category, Line, AutoFixable); Line 0 is "not set".    *)
(***************************************************************************)
Issue(id, sev, cat, line, fix) ==
    [ID |-> id, Severity |-> sev, Category |-> cat, Line |-> line, AutoFixable |-> fix]

\* the issues appended one element after the other (issues = append(issues, ...))
RECURSIVE Flatten(_, _)
Flatten(seqs, i) ==
    IF i > Len(seqs) THEN <<>> ELSE seqs[i] \o Flatten(seqs, i + 1)

\* first FROM instruction whose lower-cased arguments contain img
RECURSIVE FirstFromContaining(_, _, _)
FirstFromContaining(insts, img, i) ==
    IF i > Len(insts) THEN <<>>
    ELSE IF insts[i].Command = "FROM" /\ Contains(ToLower(insts[i].Args), img)
         THEN <<insts[i]>>
         ELSE FirstFromContaining(insts, img, i + 1)

LatestTagRule(pdf) ==
    LET one(img) ==
          IF (HasSuffix(img, ":latest") \/ ~Contains(img, ":")) /\ img # "scratch"
          THEN LET f == FirstFromContaining(pdf.Instructions, img, 1)
               IN IF Len(f) = 0 THEN <<>>
                  ELSE <<Issue("DIO001", "high", "base-image", f[1].Line, FALSE)>>
          ELSE <<>>
    IN Flatten([k \in 1..Len(pdf.BaseImages) |-> one(pdf.BaseImages[k])], 1)

MissingDockerignoreRule(missingDockerignore) ==
    IF missingDockerignore
    THEN <<Issue("DIO002", "medium", "best-practice", 0, TRUE)>>
    ELSE <<>>

MaxLayers == 15

TooManyLayersRule(pdf) ==
    IF Len(pdf.Stages) = 0 THEN <<>>
    ELSE LET finalStage == pdf.Stages[Len(pdf.Stages)]
             layerCount == Cardinality({k \in 1..Len(finalStage.Instructions) :
                              finalStage.Instructions[k].Command \in {"RUN", "COPY", "ADD"}})
         IN IF layerCount > MaxLayers
            THEN <<Issue("DIO003", "medium", "optimization", 0, TRUE)>>
            ELSE <<>>

AptGetRule(pdf) ==
    LET one(inst) ==
          IF inst.Command = "RUN" /\ Contains(inst.Args, "apt-get install")
                /\ ~Contains(inst.Args, "--no-install-recommends")
          THEN <<Issue("DIO004", "medium", "optimization", inst.Line, TRUE)>>
          ELSE <<>>
    IN Flatten([k \in 1..Len(pdf.Instructions) |-> one(pdf.Instructions[k])], 1)

CacheNotCleanedRule(pdf) ==
    LET one(inst) ==
          IF inst.Command # "RUN" THEN <<>>
          ELSE LET hasAptGet == Contains(inst.Args, "apt-get install")
                                   \/ Contains(inst.Args, "apt-get update")
                   hasClean == Contains(inst.Args, "rm -rf /var/lib/apt/lists")
                                   \/ Contains(inst.Args, "apt-get clean")
                                   \/ Contains(inst.Args, "apt-get autoremove")
                   hasPip == Contains(inst.Args, "pip install")
                   hasPipNoCache == Contains(inst.Args, "--no-cache-dir")
               IN (IF hasAptGet /\ ~hasClean
                   THEN <<Issue("DIO005", "medium", "optimization", inst.Line, TRUE)>>
                   ELSE <<>>)
                  \o
                  (IF hasPip /\ ~hasPipNoCache
                   THEN <<Issue("DIO005-pip", "low", "optimization", inst.Line, TRUE)>>
                   ELSE <<>>)
    IN Flatten([k \in 1..Len(pdf.Instructions) |-> one(pdf.Instructions[k])], 1)

\* a faulty variant of RootUserRule: any USER instruction counts
RootUserRule_AnyUser(pdf) ==
    LET hasUserInstruction ==
          \E k \in 1..Len(pdf.Instructions) : pdf.Instructions[k].Command = "USER"
    IN IF ~hasUserInstruction
       THEN <<Issue("DIO006", "high", "security", 0, TRUE)>>
       ELSE <<>>

RootUserRule(pdf) ==
    LET hasUserInstruction ==
          \E k \in 1..Len(pdf.Instructions) :
             /\ pdf.Instructions[k].Command = "USER"
             /\ TrimSpace(pdf.Instructions[k].Args) \notin {"root", "0"}
    IN IF ~hasUserInstruction
       THEN <<Issue("DIO006", "high", "security", 0, TRUE)>>
       ELSE <<>>

\* copyAllRegex ^COPY\s+\.\s+\.
copyAllRegex(raw) ==
    /\ HasPrefix(raw, "COPY")
    /\ LET a == ReSpaceEnd(raw, 5)
       IN /\ a > 5
          /\ Char(raw, a) = "."
          /\ LET b == ReSpaceEnd(raw, a + 1)
             IN b > a + 1 /\ Char(raw, b) = "."

CopyAllRule(pdf) ==
    LET one(inst) ==
          IF inst.Command = "COPY" /\ copyAllRegex(inst.Raw)
          THEN <<Issue("DIO007", "low", "optimization", inst.Line, FALSE)>>
          ELSE <<>>
    IN Flatten([k \in 1..Len(pdf.Instructions) |-> one(pdf.Instructions[k])], 1)

ruleBuildIndicators ==
    {"npm run build", "go build", "mvn", "gradle", "make", "cargo build",
     "dotnet publish", "gcc", "g++"}

\* a faulty variant of NoMultiStageRule: the command is not tested
NoMultiStageRule_AnyCommand(pdf) ==
    IF pdf.HasMultiStage THEN <<>>
    ELSE LET hasBuild ==
               \E k \in 1..Len(pdf.Instructions) :
                  LET lower == ToLower(pdf.Instructions[k].Args)
                  IN \E ind \in ruleBuildIndicators : Contains(lower, ind)
         IN IF hasBuild
            THEN <<Issue("DIO008", "high", "optimization", 0, TRUE)>>
            ELSE <<>>

NoMultiStageRule(pdf) ==
    IF pdf.HasMultiStage THEN <<>>
    ELSE LET hasBuild ==
               \E k \in 1..Len(pdf.Instructions) :
                  /\ pdf.Instructions[k].Command = "RUN"
                  /\ LET lower == ToLower(pdf.Instructions[k].Args)
                     IN \E ind \in ruleBuildIndicators : Contains(lower, ind)
         IN IF hasBuild
            THEN <<Issue("DIO008", "high", "optimization", 0, TRUE)>>
            ELSE <<>>

\* unpinnedRegex (apt-get install|apk add).*\s+\w+\s*($|&&), on arguments
\* that hold no newline
unpinnedRegex(a) ==
    \E p \in 1..Len(a) :
       \E kw \in {"apt-get install", "apk add"} :
          /\ Sub(a, p, p + Len(kw) - 1) = kw
          /\ \E q \in (p + Len(kw))..Len(a) :
                /\ IsReSpace(Char(a, q))
                /\ LET r == WordEnd(a, q + 1)
                       u == ReSpaceEnd(a, r)
                   IN /\ r > q + 1
                      /\ (u > Len(a) \/ Sub(a, u, u + 1) = "&&")

PinVersionRule(pdf) ==
    LET one(inst) ==
          IF inst.Command = "RUN" /\ unpinnedRegex(inst.Args) /\ ~Contains(inst.Args, "=")
          THEN <<Issue("DIO009", "low", "reproducibility", inst.Line, FALSE)>>
          ELSE <<>>
    IN Flatten([k \in 1..Len(pdf.Instructions) |-> one(pdf.Instructions[k])], 1)

RunThreshold == 3

\* the loop of CombineRunRule.Check; c is <<consecutiveRuns, firstRunLine>>
RECURSIVE CombineRunLoop(_, _, _)
CombineRunLoop(insts, i, c) ==
    IF i > Len(insts) THEN <<>>
    ELSE IF insts[i].Command = "RUN"
         THEN LET n == c[1] + 1
                  first == IF n = 1 THEN insts[i].Line ELSE c[2]
              IN IF n >= RunThreshold
                 THEN <<Issue("DIO010", "medium", "optimization", first, TRUE)>>
                         \o CombineRunLoop(insts, i + 1, <<0, first>>)
                 ELSE CombineRunLoop(insts, i + 1, <<n, first>>)
         ELSE CombineRunLoop(insts, i + 1, <<0, c[2]>>)

CombineRunRule(pdf) == CombineRunLoop(pdf.Instructions, 1, <<0, 0>>)

WorkdirRule(pdf) ==
    IF \E k \in 1..Len(pdf.Instructions) : pdf.Instructions[k].Command = "WORKDIR"
    THEN <<>>
    ELSE <<Issue("DIO011", "low", "best-practice", 0, TRUE)>>

HealthcheckRule(pdf) ==
    IF \E k \in 1..Len(pdf.Instructions) : pdf.Instructions[k].Command = "HEALTHCHECK"
    THEN <<>>
    ELSE <<Issue("DIO012", "info", "best-practice", 0, FALSE)>>

\* a faulty variant of RunRules: RootUserRule is run first
RunRules_RootUserFirst(pdf, missingDockerignore) ==
    RootUserRule(pdf) \o LatestTagRule(pdf)
       \o MissingDockerignoreRule(missingDockerignore)
       \o TooManyLayersRule(pdf) \o AptGetRule(pdf) \o CacheNotCleanedRule(pdf)
       \o CopyAllRule(pdf) \o NoMultiStageRule(pdf)
       \o PinVersionRule(pdf) \o CombineRunRule(pdf) \o WorkdirRule(pdf)
       \o HealthcheckRule(pdf)

\* the rules in the order of DefaultRules, concatenated as Analyze does
RunRules(pdf, missingDockerignore) ==
    LatestTagRule(pdf) \o MissingDockerignoreRule(missingDockerignore)
       \o TooManyLayersRule(pdf) \o AptGetRule(pdf) \o CacheNotCleanedRule(pdf)
       \o RootUserRule(pdf) \o CopyAllRule(pdf) \o NoMultiStageRule(pdf)
       \o PinVersionRule(pdf) \o CombineRunRule(pdf) \o WorkdirRule(pdf)
       \o HealthcheckRule(pdf)

(***************************************************************************)
(* analyzer: calculateScore                                                *)
(***************************************************************************)
Severities == {"critical", "high", "medium", "low", "info"}

\* a faulty variant of SeverityWeight: medium counted like high
SeverityWeight_MediumAsHigh(sev) ==
    CASE sev = "critical" -> 20
      [] sev = "high" -> 15
      [] sev = "medium" -> 15
      [] sev = "low" -> 5
      [] sev = "info" -> 2
      [] OTHER -> 0

SeverityWeight(sev) ==
    CASE sev = "critical" -> 20
      [] sev = "high" -> 15
      [] sev = "medium" -> 10
      [] sev = "low" -> 5
      [] sev = "info" -> 2
      [] OTHER -> 0

RECURSIVE ScoreLoop(_, _, _)
ScoreLoop(issues, i, score) ==
    IF i > Len(issues) THEN score
    ELSE ScoreLoop(issues, i + 1, score - SeverityWeight(issues[i].Severity))

\* a faulty variant of calculateScore: the lower clamp is missing
calculateScore_NoClamp(issues) == ScoreLoop(issues, 1, 100)

calculateScore(issues) ==
    LET score == ScoreLoop(issues, 1, 100)
    IN IF score < 0 THEN 0 ELSE score

\* Analyzer.AnalyzeContent: MissingDockerignore is never set on this path
AnalyzeContent(content) ==
    LET lines == Split(content, "\n")
        analysis(issues) == [Issues |-> issues, Score |-> calculateScore(issues)]
    IN analysis(RunRules(parseDockerfile(lines), FALSE))

(***************************************************************************)
(* optimizer: strategies.  A context is [Lines, Analysis, CurrentContent]; *)
(* Analyze returns <<>> for nil and <<optimization>> otherwise; Apply      *)
(* returns [text, ok], ok being err == nil.                                *)
(***************************************************************************)
Optimization(id, cat, prio, fix) ==
    [ID |-> id, Category |-> cat, Priority |-> prio, AutoFixable |-> fix, Applied |-> FALSE]

\* strings.HasPrefix(strings.ToUpper(s), p) for an upper-case p: ToUpper maps
\* character by character, so only the first len(p) characters decide
HasPrefixUpper(s, p) == HasPrefix(ToUpper(Sub(s, 1, Len(p))), p)

ReplaceAt(seq, i, v) == [seq EXCEPT ![i] = v]

slimAlternatives ==
    [ubuntu |-> "ubuntu:22.04", debian |-> "debian:bookworm-slim",
     node |-> "node:lts-alpine", python |-> "python:3.12-slim",
     golang |-> "golang:1.22-alpine", ruby |-> "ruby:3.3-alpine",
     php |-> "php:8.3-alpine", java |-> "eclipse-temurin:21-jre-alpine",
     openjdk |-> "eclipse-temurin:21-jre-alpine", nginx |-> "nginx:alpine",
     httpd |-> "httpd:alpine", postgres |-> "postgres:16-alpine",
     mysql |-> "mysql:8.0", redis |-> "redis:alpine", mongo |-> "mongo:7.0",
     centos |-> "debian:bookworm-slim", fedora |-> "debian:bookworm-slim",
     amazoncorretto |-> "amazoncorretto:21-alpine"]

\* the body of the FROM scan shared by BaseImageStrategy.Analyze and Apply:
\* <<>> when the line is skipped, else <<parts, alt>>
HeavyFrom(line) ==
    LET trimmed == TrimSpace(line)
        image(parts, baseImage) ==
            LET idx == Index(baseImage, ":")
                imageName == IF idx # 0 THEN Sub(baseImage, 1, idx - 1) ELSE baseImage
            IN IF Contains(baseImage, "slim") \/ Contains(baseImage, "alpine")
                    \/ Contains(baseImage, "distroless") \/ baseImage = "scratch"
               THEN <<>>
               ELSE IF imageName \in DOMAIN slimAlternatives
                    THEN <<parts, slimAlternatives[imageName]>>
                    ELSE <<>>
        from(parts) ==
            IF ~HasPrefixUpper(trimmed, "FROM") \/ Len(parts) < 2 THEN <<>>
            ELSE image(parts, ToLower(parts[2]))
    IN from(Fields(trimmed))

BaseImageAnalyze(ctx) ==
    IF \E i \in 1..Len(ctx.Lines) : HeavyFrom(ctx.Lines[i]) # <<>>
    THEN <<Optimization("OPT-BASE", "base-image", 1, TRUE)>>
    ELSE <<>>

\* a faulty variant of BaseImageApply: the last matching FROM line is rewritten
BaseImageApply_LastFrom(ctx) ==
    LET content == ctx.CurrentContent
        lines == Split(content, "\n")
        hits == {i \in 1..Len(lines) : HeavyFrom(lines[i]) # <<>>}
        rewrite(i, h) ==
            [text |-> Join(ReplaceAt(lines, i, Join(ReplaceAt(h[1], 2, h[2]), " ")), "\n"),
             ok |-> TRUE]
        first(i) == rewrite(i, HeavyFrom(lines[i]))
    IN IF hits = {} THEN [text |-> content, ok |-> FALSE]
       ELSE first(CHOOSE k \in hits : \A m \in hits : k >= m)

BaseImageApply(ctx) ==
    LET content == ctx.CurrentContent
        lines == Split(content, "\n")
        hits == {i \in 1..Len(lines) : HeavyFrom(lines[i]) # <<>>}
        rewrite(i, h) ==
            [text |-> Join(ReplaceAt(lines, i, Join(ReplaceAt(h[1], 2, h[2]), " ")), "\n"),
             ok |-> TRUE]
        first(i) == rewrite(i, HeavyFrom(lines[i]))
    IN IF hits = {} THEN [text |-> content, ok |-> FALSE]
       ELSE first(CHOOSE k \in hits : \A m \in hits : k <= m)

IsRunLine(trimmed) == HasPrefixUpper(trimmed, "RUN ")

MinRuns == 2

RECURSIVE TrailingRuns(_, _, _)
TrailingRuns(lines, i, n) ==
    IF i > Len(lines) THEN n
    ELSE LET trimmed == TrimSpace(lines[i])
         IN IF IsRunLine(trimmed) THEN TrailingRuns(lines, i + 1, n + 1)
            ELSE IF trimmed # "" /\ ~HasPrefix(trimmed, "#") THEN TrailingRuns(lines, i + 1, 0)
            ELSE TrailingRuns(lines, i + 1, n)

CombineLayersAnalyze(ctx) ==
    IF TrailingRuns(ctx.Lines, 1, 0) >= MinRuns
    THEN <<Optimization("OPT-LAYERS", "layer-optimization", 3, TRUE)>>
    ELSE <<>>

\* flushRuns: the lines the buffered commands add to result
flushRuns(runBuffer) ==
    IF Len(runBuffer) = 0 THEN <<>>
    ELSE <<"RUN " \o Join(runBuffer, " && \\\n    ")>>

RECURSIVE CombineLoop(_, _, _, _, _)
CombineLoop(lines, i, result, runBuffer, inRun) ==
    IF i > Len(lines) THEN result \o flushRuns(runBuffer)
    ELSE LET line == lines[i]
             trimmed == TrimSpace(line)
         IN IF IsRunLine(trimmed)
            THEN LET cmd == TrimSpace(TrimSuffix(TrimSpace(Sub(trimmed, 5, Len(trimmed))), "\\"))
                 IN CombineLoop(lines, i + 1, result, Append(runBuffer, cmd), TRUE)
            ELSE IF inRun /\ (trimmed = "" \/ HasPrefix(trimmed, "#"))
                 THEN CombineLoop(lines, i + 1, result, runBuffer, inRun)
                 ELSE IF inRun
                      THEN CombineLoop(lines, i + 1,
                                       Append(result \o flushRuns(runBuffer), line),
                                       <<>>, FALSE)
                      ELSE CombineLoop(lines, i + 1, Append(result, line), runBuffer, FALSE)

CombineLayersApply(ctx) ==
    [text |-> Join(CombineLoop(Split(ctx.CurrentContent, "\n"), 1, <<>>, <<>>, FALSE), "\n"),
     ok |-> TRUE]

strategyBuildIndicators ==
    {"npm run build", "go build", "mvn", "gradle", "make", "cargo build", "dotnet publish"}

IsFromLine(line) == HasPrefixUpper(TrimSpace(line), "FROM")

MultiStageAnalyze(ctx) ==
    LET fromCount == Cardinality({i \in 1..Len(ctx.Lines) : IsFromLine(ctx.Lines[i])})
    IN IF fromCount > 1 THEN <<>>
       ELSE IF \E i \in 1..Len(ctx.Lines) :
                  LET lower == ToLower(ctx.Lines[i])
                  IN \E ind \in strategyBuildIndicators : Contains(lower, ind)
            THEN <<Optimization("OPT-MULTISTAGE", "multi-stage", 1, TRUE)>>
            ELSE <<>>

\* the switch of detectLanguage on one line: "" when no case matches
LineLanguage(line) ==
    LET switch(lower) ==
            LET has(w) == Contains(lower, w)
            IN IF has("node") \/ has("npm") THEN "node"
               ELSE IF has("golang") \/ has("go build") THEN "go"
               ELSE IF has("python") \/ has("pip") THEN "python"
               ELSE IF has("ruby") \/ has("gem") THEN "ruby"
               ELSE IF has("java") \/ has("mvn") \/ has("gradle") THEN "java"
               ELSE IF has("rust") \/ has("cargo") THEN "rust"
               ELSE IF has("dotnet") THEN "dotnet"
               ELSE ""
    IN switch(ToLower(line))

RECURSIVE DetectFrom(_, _)
DetectFrom(lines, i) ==
    IF i > Len(lines) THEN ""
    ELSE LET found(l) == IF l # "" THEN l ELSE DetectFrom(lines, i + 1)
         IN found(LineLanguage(lines[i]))

detectLanguage(lines) == DetectFrom(lines, 1)

\* the version loop shared by nodeTemplate, goTemplate and pythonTemplate:
\* the last FROM line naming the image with a usable tag decides
RECURSIVE TemplateVersion(_, _, _, _)
TemplateVersion(lines, i, image, version) ==
    IF i > Len(lines) THEN version
    ELSE LET line == lines[i]
             from(parts) ==
                 LET img == parts[2]
                     idx == Index(img, ":")
                     tag == Sub(img, idx + 1, Len(img))
                 IN IF IsFromLine(line) /\ Len(parts) >= 2
                         /\ Contains(ToLower(parts[2]), image)
                         /\ idx # 0 /\ tag # "" /\ tag # "latest"
                    THEN TemplateVersion(lines, i + 1, image, Split(tag, "-")[1])
                    ELSE TemplateVersion(lines, i + 1, image, version)
         IN from(Fields(line))

nodeTemplate(lines) ==
    LET nodeVersion == TemplateVersion(lines, 1, "node", "20")
    IN "# Stage 1: Build\n"
       \o "FROM node:" \o nodeVersion \o "-alpine AS builder\n"
       \o "WORKDIR /app\n"
       \o "\n"
       \o "# Copy dependency files first for better caching\n"
       \o "COPY package*.json ./\n"
       \o "RUN npm ci --only=production\n"
       \o "\n"
       \o "# Copy source and build\n"
       \o "COPY . .\n"
       \o "RUN npm run build\n"
       \o "\n"
       \o "# Stage 2: Production\n"
       \o "FROM node:" \o nodeVersion \o "-alpine AS production\n"
       \o "WORKDIR /app\n"
       \o "\n"
       \o "# Copy built artifacts\n"
       \o "COPY --from=builder /app/dist ./dist\n"
       \o "COPY --from=builder /app/node_modules ./node_modules\n"
       \o "COPY --from=builder /app/package.json ./\n"
       \o "\n"
       \o "# Security: run as non-root\n"
       \o "RUN addgroup --system --gid 1001 nodejs && \\\n"
       \o "    adduser --system --uid 1001 --ingroup nodejs nextjs\n"
       \o "USER nextjs\n"
       \o "\n"
       \o "EXPOSE 3000\n"
       \o "CMD [\"node\", \"dist/index.js\"]\n"

goTemplate(lines) ==
    LET goVersion == TemplateVersion(lines, 1, "golang", "1.22")
    IN "# Stage 1: Build\n"
       \o "FROM golang:" \o goVersion \o "-alpine AS builder\n"
       \o "WORKDIR /app\n"
       \o "\n"
       \o "# Install build dependencies\n"
       \o "RUN apk add --no-cache git ca-certificates\n"
       \o "\n"
       \o "# Copy dependency files first for better caching\n"
       \o "COPY go.mod go.sum ./\n"
       \o "RUN go mod download\n"
       \o "\n"
       \o "# Copy source and build\n"
       \o "COPY . .\n"
       \o "RUN CGO_ENABLED=0 GOOS=linux GOARCH=amd64 go build -ldflags=\"-w -s\" -o /app/server .\n"
       \o "\n"
       \o "# Stage 2: Production (distroless for minimal attack surface)\n"
       \o "FROM gcr.io/distroless/static-debian12:nonroot\n"
       \o "WORKDIR /app\n"
       \o "\n"
       \o "COPY --from=builder /app/server .\n"
       \o "\n"
       \o "USER nonroot:nonroot\n"
       \o "EXPOSE 8080\n"
       \o "ENTRYPOINT [\"/app/server\"]\n"

pythonTemplate(lines) ==
    LET pythonVersion == TemplateVersion(lines, 1, "python", "3.12")
    IN "# Stage 1: Build\n"
       \o "FROM python:" \o pythonVersion \o "-slim AS builder\n"
       \o "WORKDIR /app\n"
       \o "\n"
       \o "# Install build dependencies\n"
       \o "RUN apt-get update && \\\n"
       \o "    apt-get install --no-install-recommends -y build-essential && \\\n"
       \o "    rm -rf /var/lib/apt/lists/*\n"
       \o "\n"
       \o "# Copy and install dependencies\n"
       \o "COPY requirements.txt .\n"
       \o "RUN pip install --no-cache-dir --prefix=/install -r requirements.txt\n"
       \o "\n"
       \o "# Stage 2: Production\n"
       \o "FROM python:" \o pythonVersion \o "-slim AS production\n"
       \o "WORKDIR /app\n"
       \o "\n"
       \o "# Copy installed packages from builder\n"
       \o "COPY --from=builder /install /usr/local\n"
       \o "\n"
       \o "# Copy application code\n"
       \o "COPY . .\n"
       \o "\n"
       \o "# Security: run as non-root\n"
       \o "RUN addgroup --system --gid 1001 appgroup && \\\n"
       \o "    adduser --system --uid 1001 --ingroup appgroup appuser\n"
       \o "USER appuser\n"
       \o "\n"
       \o "EXPOSE 8000\n"
       \o "CMD [\"python\", \"main.py\"]\n"

rustTemplate(lines) ==
    "# Stage 1: Build\n"
       \o "FROM rust:1.77-alpine AS builder\n"
       \o "WORKDIR /app\n"
       \o "\n"
       \o "RUN apk add --no-cache musl-dev\n"
       \o "\n"
       \o "# Cache dependencies\n"
       \o "COPY Cargo.toml Cargo.lock ./\n"
       \o "RUN mkdir src && echo \"fn main() {}\" > src/main.rs\n"
       \o "RUN cargo build --release\n"
       \o "RUN rm -rf src\n"
       \o "\n"
       \o "# Build actual application\n"
       \o "COPY . .\n"
       \o "RUN cargo build --release\n"
       \o "\n"
       \o "# Stage 2: Production\n"
       \o "FROM gcr.io/distroless/static-debian12:nonroot\n"
       \o "WORKDIR /app\n"
       \o "\n"
       \o "COPY --from=builder /app/target/release/app .\n"
       \o "\n"
       \o "USER nonroot:nonroot\n"
       \o "EXPOSE 8080\n"
       \o "ENTRYPOINT [\"/app/app\"]\n"

javaTemplate(lines) ==
    "# Stage 1: Build\n"
       \o "FROM eclipse-temurin:21-jdk-alpine AS builder\n"
       \o "WORKDIR /app\n"
       \o "\n"
       \o "COPY pom.xml .\n"
       \o "COPY src ./src\n"
       \o "\n"
       \o "RUN apk add --no-cache maven && \\\n"
       \o "    mvn clean package -DskipTests\n"
       \o "\n"
       \o "# Stage 2: Production\n"
       \o "FROM eclipse-temurin:21-jre-alpine AS production\n"
       \o "WORKDIR /app\n"
       \o "\n"
       \o "COPY --from=builder /app/target/*.jar app.jar\n"
       \o "\n"
       \o "# Security: run as non-root\n"
       \o "RUN addgroup --system --gid 1001 appgroup && \\\n"
       \o "    adduser --system --uid 1001 --ingroup appgroup appuser\n"
       \o "USER appuser\n"
       \o "\n"
       \o "EXPOSE 8080\n"
       \o "ENTRYPOINT [\"java\", \"-jar\", \"app.jar\"]\n"

getMultiStageTemplate(lang, originalLines) ==
    CASE lang = "node" -> nodeTemplate(originalLines)
      [] lang = "go" -> goTemplate(originalLines)
      [] lang = "python" -> pythonTemplate(originalLines)
      [] lang = "rust" -> rustTemplate(originalLines)
      [] lang = "java" -> javaTemplate(originalLines)
      [] OTHER -> ""

\* a faulty variant of MultiStageApply: a missing template is not an error
MultiStageApply_NoTemplateCheck(ctx) ==
    LET content == ctx.CurrentContent
        lines == Split(content, "\n")
        replace(lang, template) ==
            IF lang = "" THEN [text |-> content, ok |-> FALSE]
            ELSE [text |-> template, ok |-> TRUE]
        detected(lang) == replace(lang, getMultiStageTemplate(lang, lines))
    IN detected(detectLanguage(lines))

MultiStageApply(ctx) ==
    LET content == ctx.CurrentContent
        lines == Split(content, "\n")
        replace(lang, template) ==
            IF lang = "" \/ template = "" THEN [text |-> content, ok |-> FALSE]
            ELSE [text |-> template, ok |-> TRUE]
        detected(lang) == replace(lang, getMultiStageTemplate(lang, lines))
    IN detected(detectLanguage(lines))

depIndicators ==
    {"npm install", "npm ci", "pip install", "go mod download", "bundle install", "cargo build"}

CacheOptAnalyze(ctx) ==
    LET copies == {i \in 1..Len(ctx.Lines) :
                      LET trimmed == TrimSpace(ctx.Lines[i])
                      IN HasPrefixUpper(trimmed, "COPY") /\ Contains(trimmed, ". .")}
        deps == {i \in 1..Len(ctx.Lines) :
                    LET lower == ToLower(TrimSpace(ctx.Lines[i]))
                    IN \E dep \in depIndicators : Contains(lower, dep)}
    IN IF copies # {} /\ deps # {}
            /\ (CHOOSE c \in copies : \A m \in copies : c <= m)
                 < (CHOOSE d \in deps : \A m \in deps : d >= m)
       THEN <<Optimization("OPT-CACHE", "cache-optimization", 2, FALSE)>>
       ELSE <<>>

CacheOptApply(ctx) == [text |-> ctx.CurrentContent, ok |-> TRUE]

HasIssue(ctx, id) ==
    \E k \in 1..Len(ctx.Analysis.Issues) : ctx.Analysis.Issues[k].ID = id

NonRootUserAnalyze(ctx) ==
    IF HasIssue(ctx, "DIO006")
    THEN <<Optimization("OPT-USER", "security", 2, TRUE)>>
    ELSE <<>>

userBlock ==
    <<"# Run as non-root user for security",
      "RUN addgroup --system --gid 1001 appgroup && \\",
      "    adduser --system --uid 1001 --ingroup appgroup appuser",
      "USER appuser",
      "">>

NonRootUserApply(ctx) ==
    LET lines == Split(ctx.CurrentContent, "\n")
        cmds == {i \in 1..Len(lines) :
                    LET upper == ToUpper(TrimSpace(lines[i]))
                    IN HasPrefix(upper, "CMD") \/ HasPrefix(upper, "ENTRYPOINT")}
        insertIdx == IF cmds = {} THEN Len(lines)
                     ELSE CHOOSE c \in cmds : \A m \in cmds : c >= m
    IN IF \E i \in 1..Len(lines) : HasPrefixUpper(TrimSpace(lines[i]), "USER")
       THEN [text |-> ctx.CurrentContent, ok |-> TRUE]
       ELSE [text |-> Join(SubSeq(lines, 1, insertIdx - 1) \o userBlock
                              \o SubSeq(lines, insertIdx, Len(lines)), "\n"),
             ok |-> TRUE]

CleanupAnalyze(ctx) ==
    IF HasIssue(ctx, "DIO005")
    THEN <<Optimization("OPT-CLEANUP", "cleanup", 2, TRUE)>>
    ELSE <<>>

\* aptGetPattern (apt-get install[^\n]+) with the ReplaceAllStringFunc
\* callback of CleanupStrategy.Apply, scanning s from position i
RECURSIVE aptGetReplace(_, _)
aptGetReplace(s, i) ==
    LET k == IndexFrom(s, "apt-get install", i)
        e == k + Len("apt-get install")
    IN IF k = 0 THEN Sub(s, i, Len(s))
       ELSE IF e > Len(s) \/ Char(s, e) = "\n"
            THEN Sub(s, i, k) \o aptGetReplace(s, k + 1)
            ELSE LET nl == IndexFrom(s, "\n", e)
                     stop == IF nl = 0 THEN Len(s) ELSE nl - 1
                     match == Sub(s, k, stop)
                     repl == IF Contains(match, "rm -rf /var/lib/apt/lists") THEN match
                             ELSE match \o " && \\\n    rm -rf /var/lib/apt/lists/*"
                 IN Sub(s, i, k - 1) \o repl \o aptGetReplace(s, stop + 1)

CleanupApply(ctx) ==
    LET c1 == aptGetReplace(ctx.CurrentContent, 1)
        c2 == ReplaceAll(c1, "apt-get install ", "apt-get install --no-install-recommends ")
        c3 == ReplaceAll(c2, "--no-install-recommends --no-install-recommends",
                         "--no-install-recommends")
    IN [text |-> c3, ok |-> TRUE]

WorkdirAnalyze(ctx) ==
    IF HasIssue(ctx, "DIO011")
    THEN <<Optimization("OPT-WORKDIR", "best-practice", 4, TRUE)>>
    ELSE <<>>

\* a faulty variant of WorkdirApply: the line goes after the last FROM
WorkdirApply_LastFrom(ctx) ==
    LET lines == Split(ctx.CurrentContent, "\n")
        froms == {i \in 1..Len(lines) : IsFromLine(lines[i])}
    IN IF \E i \in 1..Len(lines) : HasPrefixUpper(TrimSpace(lines[i]), "WORKDIR")
       THEN [text |-> ctx.CurrentContent, ok |-> TRUE]
       ELSE IF froms = {} THEN [text |-> Join(lines, "\n"), ok |-> TRUE]
       ELSE LET f == CHOOSE k \in froms : \A m \in froms : k >= m
            IN [text |-> Join(SubSeq(lines, 1, f) \o <<"WORKDIR /app">>
                                 \o SubSeq(lines, f + 1, Len(lines)), "\n"),
                ok |-> TRUE]

WorkdirApply(ctx) ==
    LET lines == Split(ctx.CurrentContent, "\n")
        froms == {i \in 1..Len(lines) : IsFromLine(lines[i])}
    IN IF \E i \in 1..Len(lines) : HasPrefixUpper(TrimSpace(lines[i]), "WORKDIR")
       THEN [text |-> ctx.CurrentContent, ok |-> TRUE]
       ELSE IF froms = {} THEN [text |-> Join(lines, "\n"), ok |-> TRUE]
       ELSE LET f == CHOOSE k \in froms : \A m \in froms : k <= m
            IN [text |-> Join(SubSeq(lines, 1, f) \o <<"WORKDIR /app">>
                                 \o SubSeq(lines, f + 1, Len(lines)), "\n"),
                ok |-> TRUE]

(***************************************************************************)
(* optimizer: the registry of New and the loop body of OptimizeContent     *)
(***************************************************************************)
ModeSuggest == "suggest"
ModeAutoFix == "autofix"
Modes == {ModeSuggest, ModeAutoFix}

\* the strategies in the order New registers them
Strategies ==
    <<"base-image-optimization", "combine-layers", "multi-stage-build",
      "cache-optimization", "non-root-user", "cleanup", "workdir">>

Analyze(name, ctx) ==
    CASE name = "base-image-optimization" -> BaseImageAnalyze(ctx)
      [] name = "combine-layers" -> CombineLayersAnalyze(ctx)
      [] name = "multi-stage-build" -> MultiStageAnalyze(ctx)
      [] name = "cache-optimization" -> CacheOptAnalyze(ctx)
      [] name = "non-root-user" -> NonRootUserAnalyze(ctx)
      [] name = "cleanup" -> CleanupAnalyze(ctx)
      [] name = "workdir" -> WorkdirAnalyze(ctx)

Apply(name, ctx) ==
    CASE name = "base-image-optimization" -> BaseImageApply(ctx)
      [] name = "combine-layers" -> CombineLayersApply(ctx)
      [] name = "multi-stage-build" -> MultiStageApply(ctx)
      [] name = "cache-optimization" -> CacheOptApply(ctx)
      [] name = "non-root-user" -> NonRootUserApply(ctx)
      [] name = "cleanup" -> CleanupApply(ctx)
      [] name = "workdir" -> WorkdirApply(ctx)

\* the context OptimizeContent builds before its loop
NewContext(content) ==
    [Lines |-> Split(content, "\n"),
     Analysis |-> AnalyzeContent(content),
     CurrentContent |-> content]

\* a faulty variant of ShouldApply: the mode is not consulted
ShouldApply_AnyMode(m, opt) == opt.AutoFixable

\* o.mode == ModeAutoFix && opt.AutoFixable
ShouldApply(m, opt) == m = ModeAutoFix /\ opt.AutoFixable

\* the context after Apply returned res: the err == nil branch swaps the text
\* and re-splits it, the other branch leaves the context alone
AfterApply(ctx, res) ==
    IF res.ok
    THEN [ctx EXCEPT !.CurrentContent = res.text, !.Lines = Split(res.text, "\n")]
    ELSE ctx

\* faulty variants of MarkApplied: the flag is never set, or set on failure too
MarkApplied_Never(opt, res) == opt
MarkApplied_Always(opt, res) == [opt EXCEPT !.Applied = TRUE]

\* opt.Applied after Apply returned res
MarkApplied(opt, res) == [opt EXCEPT !.Applied = res.ok]

\* one iteration of the loop over o.strategies: the context and the
\* optimization list after it, with what happened (fired: Analyze returned an
\* optimization; called: Apply was called; ok: it returned no error)
StrategyStep(m, name, ctx, opts) ==
    LET applied(opt, res) ==
            [ctx |-> AfterApply(ctx, res),
             opts |-> Append(opts, MarkApplied(opt, res)),
             fired |-> TRUE, called |-> TRUE, ok |-> res.ok]
        analyzed(a) ==
            IF Len(a) = 0
            THEN [ctx |-> ctx, opts |-> opts, fired |-> FALSE, called |-> FALSE, ok |-> FALSE]
            ELSE IF ShouldApply(m, a[1])
                 THEN applied(a[1], Apply(name, ctx))
                 ELSE [ctx |-> ctx, opts |-> Append(opts, a[1]),
                       fired |-> TRUE, called |-> FALSE, ok |-> FALSE]
    IN analyzed(Analyze(name, ctx))

CategoryImpact(cat) ==
    CASE cat = "base-image" -> 60
      [] cat = "multi-stage" -> 50
      [] cat = "layer-optimization" -> 15
      [] cat = "cleanup" -> 20
      [] OTHER -> 5

MaxImpact == 85

RECURSIVE TotalImpact(_, _)
TotalImpact(opts, i) ==
    IF i > Len(opts) THEN 0
    ELSE (IF opts[i].Applied THEN CategoryImpact(opts[i].Category) ELSE 0)
            + TotalImpact(opts, i + 1)

\* strconv's decimal text of n >= 0, as fmt's %d prints it
RECURSIVE Itoa(_)
Itoa(n) ==
    IF n < 10 THEN Char(Digits, n + 1)
    ELSE Itoa(n \div 10) \o Char(Digits, (n % 10) + 1)

\* a faulty variant of estimateReduction: the cap is missing
estimateReduction_NoCap(opts) ==
    LET label(totalImpact) ==
            IF totalImpact = 0 THEN "N/A (suggest mode)"
            ELSE "~" \o Itoa(totalImpact) \o "% estimated reduction"
    IN label(TotalImpact(opts, 1))

estimateReduction(opts) ==
    LET label(totalImpact) ==
            IF totalImpact = 0 THEN "N/A (suggest mode)"
            ELSE "~" \o Itoa(totalImpact) \o "% estimated reduction"
        cap(total) == label(IF total > MaxImpact THEN MaxImpact ELSE total)
    IN cap(TotalImpact(opts, 1))

(***************************************************************************)
(* analyzer: mergeHadolintIssues                                           *)
(***************************************************************************)
TrimPrefix(s, p) == IF HasPrefix(s, p) THEN Sub(s, Len(p) + 1, Len(s)) ELSE s

hadolintToDIOCategory ==
    [DL3007 |-> "base-image", DL3008 |-> "version-pinning", DL3009 |-> "cleanup",
     DL3015 |-> "apt-get", DL3025 |-> "best-practice", DL3020 |-> "best-practice"]

\* coveredLines[line][category], built from the built-in findings with Line > 0
coveredLines(dio, line, category) ==
    \E k \in 1..Len(dio) :
       dio[k].Line > 0 /\ dio[k].Line = line /\ dio[k].Category = category

\* a faulty variant of SkipHadolint: the line is not compared
SkipHadolint_AnyLine(dio, hlIssue) ==
    LET code == TrimPrefix(hlIssue.ID, "HL-")
    IN /\ code \in DOMAIN hadolintToDIOCategory
       /\ \E k \in 1..Len(dio) : dio[k].Category = hadolintToDIOCategory[code]

\* the test that makes the loop over hadolintIssues skip hlIssue
SkipHadolint(dio, hlIssue) ==
    LET code == TrimPrefix(hlIssue.ID, "HL-")
    IN /\ code \in DOMAIN hadolintToDIOCategory
       /\ coveredLines(dio, hlIssue.Line, hadolintToDIOCategory[code])

\* the loop over hadolintIssues: covered is the list coveredLines was built
\* from, out the list appended to
RECURSIVE MergeLoop(_, _, _, _)
MergeLoop(covered, out, hl, i) ==
    IF i > Len(hl) THEN out
    ELSE MergeLoop(covered,
                   IF SkipHadolint(covered, hl[i]) THEN out ELSE Append(out, hl[i]),
                   hl, i + 1)

mergeHadolintIssues(dio, hl) == MergeLoop(dio, dio, hl, 1)

(***************************************************************************)
(* docker.ParseImageSize and policy.Enforcer.Evaluate.  A pointer is <<>>   *)
(* for nil and <<value>> otherwise; a PolicyRule keeps Name and Passed (the *)
(* other fields are texts for display).                                    *)
(***************************************************************************)
IsDigits(s) == Len(s) > 0 /\ \A i \in 1..Len(s) : Char(s, i) \in DigitSet

DigitValue(c) == CHOOSE d \in 0..9 : Char(Digits, d + 1) = c

\* the value of a string of decimal digits
RECURSIVE Atoi(_)
Atoi(s) ==
    IF Len(s) = 0 THEN 0
    ELSE 10 * Atoi(Sub(s, 1, Len(s) - 1)) + DigitValue(Char(s, Len(s)))

\* [value, ok], ok being err == nil.  strconv.ParseFloat is modelled on
\* unsigned decimal integers, the numbers the configurations below hold; any
\* other text is taken as a syntax error.
ParseImageSize(size) ==
    LET upper == TrimSpace(ToUpper(size))
        parse(num, multiplier) ==
            IF IsDigits(TrimSpace(num))
            THEN [value |-> Atoi(TrimSpace(num)) * multiplier, ok |-> TRUE]
            ELSE [value |-> 0, ok |-> FALSE]
    IN IF HasSuffix(upper, "GB") THEN parse(TrimSuffix(upper, "GB"), 1024 * 1024 * 1024)
       ELSE IF HasSuffix(upper, "MB") THEN parse(TrimSuffix(upper, "MB"), 1024 * 1024)
       ELSE IF HasSuffix(upper, "KB") THEN parse(TrimSuffix(upper, "KB"), 1024)
       ELSE IF HasSuffix(upper, "B") THEN parse(TrimSuffix(upper, "B"), 1)
       ELSE parse(upper, 1)

PolicyRule(name, passed) == [Name |-> name, Passed |-> passed]

\* a faulty variant of AddRule: a failed rule does not clear Passed
AddRule_KeepPassed(policyResult, rule) ==
    [Passed |-> policyResult.Passed,
     Rules |-> Append(policyResult.Rules, rule)]

\* if !passed { policyResult.Passed = false }; policyResult.Rules = append(...)
AddRule(policyResult, rule) ==
    [Passed |-> IF ~rule.Passed THEN FALSE ELSE policyResult.Passed,
     Rules |-> Append(policyResult.Rules, rule)]

HasIssueID(analysis, id) ==
    \E k \in 1..Len(analysis.Issues) : analysis.Issues[k].ID = id

CheckImageSize(config, result, pr) ==
    LET check(img) ==
            LET sized(maxSize) ==
                    IF maxSize.ok
                    THEN AddRule(pr, PolicyRule("max_image_size", img.Size <= maxSize.value))
                    ELSE pr
            IN sized(ParseImageSize(config.MaxImageSize))
    IN IF result.OptimizedImage # <<>> /\ config.MaxImageSize # ""
       THEN check(result.OptimizedImage[1])
       ELSE IF result.BaselineImage # <<>> /\ config.MaxImageSize # ""
            THEN check(result.BaselineImage[1])
            ELSE pr

CheckLatestTag(config, result, pr) ==
    IF config.ForbidLatestTag /\ result.Analysis # <<>>
    THEN AddRule(pr, PolicyRule("forbid_latest_tag", ~HasIssueID(result.Analysis[1], "DIO001")))
    ELSE pr

CheckNonRoot(config, result, pr) ==
    IF config.RequireNonRoot /\ result.Analysis # <<>>
    THEN AddRule(pr, PolicyRule("require_non_root", ~HasIssueID(result.Analysis[1], "DIO006")))
    ELSE pr

CheckCVEs(config, result, pr) ==
    LET scanResult == IF result.OptScanResult = <<>> THEN result.ScanResult
                      ELSE result.OptScanResult
    IN IF scanResult = <<>> THEN pr
       ELSE AddRule(AddRule(pr, PolicyRule("max_critical_cves",
                                           scanResult[1].CriticalCount
                                              <= config.MaxCriticalCVEs)),
                    PolicyRule("max_high_cves",
                               scanResult[1].HighCount <= config.MaxHighCVEs))

CheckScore(config, result, pr) ==
    IF result.Analysis # <<>> /\ config.MinScore > 0
    THEN AddRule(pr, PolicyRule("min_score", result.Analysis[1].Score >= config.MinScore))
    ELSE pr

CheckLayers(config, result, pr) ==
    LET img == IF result.OptimizedImage = <<>> THEN result.BaselineImage
               ELSE result.OptimizedImage
    IN IF config.MaxLayers > 0 /\ img # <<>>
       THEN AddRule(pr, PolicyRule("max_layers", img[1].Layers <= config.MaxLayers))
       ELSE pr

\* Enforcer.Evaluate: the checks in the order of the code
Evaluate(config, result) ==
    CheckLayers(config, result,
      CheckScore(config, result,
        CheckCVEs(config, result,
          CheckNonRoot(config, result,
            CheckLatestTag(config, result,
              CheckImageSize(config, result, [Passed |-> TRUE, Rules |-> <<>>]))))))

(***************************************************************************)
(* Bounds and inputs                                                       *)
(***************************************************************************)
MaxLines == 3
MaxRuns == 2
MaxIssues == 6
MaxApplies == 2
MaxInsts == 6
MaxOpts == 3
MaxMerge == 2

\* the lines input texts are made of
Pool ==
    {"FROM ubuntu",
     "FROM Node:18",
     "RUN apt-get install -y curl",
     "RUN make",
     "USER app",
     "CMD [\"run\"]",
     ""}

\* the texts made of these lines, and a recipe that names root as its user
Texts ==
    {Join(ls, "\n") : ls \in UNION {[1..n -> Pool] : n \in 1..MaxLines}}
       \cup {"FROM ubuntu\nUSER root"}

\* the lines the texts handed to AnalyzeContent on its own are made of
AnalyzePool ==
    {"FROM ubuntu",
     "FROM ubuntu:22.04",
     "FROM scratch",
     "FROM Node:latest AS build",
     "RUN make \\",
     "make install",
     "RUN apt-get install -y curl",
     "USER app",
     "USER root",
     "COPY Makefile .",
     "# build",
     ""}

AnalyzeTexts == {Join(ls, "\n") : ls \in UNION {[1..n -> AnalyzePool] : n \in 1..MaxLines}}

\* the lines the texts handed to each strategy on its own are made of
StrategyPool ==
    [\* CombineLayersStrategy
     cl |-> {"FROM ubuntu", "RUN make \\", "    make install", "RUN npm ci",
             "# deps", "", "COPY . ."},
     \* MultiStageStrategy
     ms |-> {"FROM golang:1.22", "RUN go build -o main .", "RUN npm ci",
             "RUN pip install flask", "RUN cargo test", "RUN mvn package",
             "RUN gem install rails", "COPY Makefile ."},
     \* NonRootUserStrategy
     nr |-> {"FROM ubuntu", "RUN make", "USER app", "CMD [\"run\"]",
             "ENTRYPOINT [\"sh\"]", ""},
     \* WorkdirStrategy
     wd |-> {"FROM ubuntu", "FROM Node:18 AS build", "WORKDIR /src", "RUN make",
             "# deps", ""}]

StrategyTexts(pool) ==
    {Join(ls, "\n") : ls \in UNION {[1..n -> pool] : n \in 1..MaxLines}}

\* the configurations and pipeline results handed to Enforcer.Evaluate
PolicyConfigs ==
    [MaxImageSize : {"", "1KB", "big"}, ForbidLatestTag : BOOLEAN,
     RequireNonRoot : BOOLEAN, MaxCriticalCVEs : {0}, MaxHighCVEs : {1},
     MinScore : {0, 50}, MaxLayers : {0, 2}]

PipelineResults ==
    LET pointer(S) == {<<>>} \cup {<<x>> : x \in S}
        images == {[Size |-> 1000, Layers |-> 1], [Size |-> 2000, Layers |-> 3]}
        scans == {[CriticalCount |-> 0, HighCount |-> 0],
                  [CriticalCount |-> 1, HighCount |-> 2]}
        analyses ==
            {AnalyzeContent(t) :
                t \in {"FROM ubuntu", "FROM ubuntu:22.04\nUSER app",
                       "FROM ubuntu\nRUN make\nRUN apt-get install -y curl"}}
    IN [OptimizedImage : pointer(images), BaselineImage : pointer(images),
        Analysis : pointer(analyses), OptScanResult : pointer(scans),
        ScanResult : pointer(scans)]

(***************************************************************************)
(* State                                                                   *)
(***************************************************************************)
VARIABLES
    mode,           \* Optimizer.mode
    pc,             \* "idle", "loop" (inside OptimizeContent), "done"
    original,       \* the content OptimizeContent was called with
    ctx,            \* the OptimizationContext
    optimizations,  \* the optimizations collected so far
    idx,            \* position of the loop in Strategies
    result,         \* <<>> or <<the OptimizationResult returned>>
    run,            \* number of OptimizeContent calls
    previous,       \* <<>> or <<the result of the call before this one>>
    log,            \* per loop iteration: what StrategyStep did, and on which context
    scoreIssues,    \* the issue list handed to calculateScore
    score,          \* its result
    parsed,         \* <<>> or <<[lines, pdf]>>: a parseDockerfile call
    applyName,      \* the strategy whose Apply is called on its own
    applyTexts,     \* the text given to it, then the text after each Apply
    analysed,       \* <<>> or <<[lines, pdf, issues]>>: an AnalyzeContent call
    runInsts,       \* the instruction list handed to CombineRunRule.Check
    runIssues,      \* its result
    estOpts,        \* the optimization list handed to estimateReduction
    estimate,       \* its result
    dioIssues,      \* the built-in findings handed to mergeHadolintIssues
    hadolintIssues, \* the hadolint findings handed to it
    merged,         \* its result
    policyInput,    \* <<>> or <<[config, result]>>: an Enforcer.Evaluate call
    policyResult,   \* <<>> or <<the PolicyResult returned>>
    strategyCall    \* <<>> or <<[name, text, fired, res]>>: a strategy's Analyze and Apply

\* the state of the calls made outside the optimizer's pipeline
unitVars == <<analysed, runInsts, runIssues, estOpts, estimate, dioIssues,
              hadolintIssues, merged, policyInput, policyResult, strategyCall>>

vars == <<mode, pc, original, ctx, optimizations, idx, result, run, previous, log,
          scoreIssues, score, parsed, applyName, applyTexts, unitVars>>

pipelineVars == <<pc, original, ctx, optimizations, idx, result, run, previous, log>>

NoContext == [Lines |-> <<>>, Analysis |-> [Issues |-> <<>>, Score |-> 100],
              CurrentContent |-> ""]

Init ==
    /\ mode \in Modes
    /\ pc = "idle"
    /\ original = ""
    /\ ctx = NoContext
    /\ optimizations = <<>>
    /\ idx = 0
    /\ result = <<>>
    /\ run = 0
    /\ previous = <<>>
    /\ log = <<>>
    /\ scoreIssues = <<>>
    /\ score = calculateScore(<<>>)
    /\ parsed = <<>>
    /\ applyName = ""
    /\ applyTexts = <<>>
    /\ analysed = <<>>
    /\ runInsts = <<>>
    /\ runIssues = CombineRunRule([Instructions |-> <<>>])
    /\ estOpts = <<>>
    /\ estimate = estimateReduction(<<>>)
    /\ dioIssues = <<>>
    /\ hadolintIssues = <<>>
    /\ merged = mergeHadolintIssues(<<>>, <<>>)
    /\ policyInput = <<>>
    /\ policyResult = <<>>
    /\ strategyCall = <<>>

(***************************************************************************)
(* Optimizer.OptimizeContent, one action per step                          *)
(***************************************************************************)
Enter(content) ==
    /\ pc' = "loop"
    /\ original' = content
    /\ ctx' = NewContext(content)
    /\ optimizations' = <<>>
    /\ idx' = 1
    /\ result' = <<>>
    /\ run' = run + 1
    /\ previous' = result
    /\ log' = <<>>
    /\ UNCHANGED <<mode, scoreIssues, score, parsed, applyName, applyTexts>>
    /\ UNCHANGED unitVars

\* a first call, on a text of the caller
OptimizeContent ==
    /\ pc = "idle"
    /\ \E content \in Texts : Enter(content)

\* a further call, on the text the call before returned
OptimizeAgain ==
    /\ pc = "done"
    /\ run < MaxRuns
    /\ Enter(result[1].OptimizedDockerfile)

LoopStep ==
    /\ pc = "loop"
    /\ idx <= Len(Strategies)
    /\ LET step(r) ==
               /\ ctx' = r.ctx
               /\ optimizations' = r.opts
               /\ log' = Append(log, [name |-> Strategies[idx], fired |-> r.fired,
                                      called |-> r.called, ok |-> r.ok, before |-> ctx])
       IN step(StrategyStep(mode, Strategies[idx], ctx, optimizations))
    /\ idx' = idx + 1
    /\ UNCHANGED <<mode, pc, original, result, run, previous, scoreIssues, score, parsed,
                   applyName, applyTexts>>
    /\ UNCHANGED unitVars

Return ==
    /\ pc = "loop"
    /\ idx > Len(Strategies)
    /\ pc' = "done"
    /\ result' = <<[OriginalDockerfile |-> original,
                    OptimizedDockerfile |-> ctx.CurrentContent,
                    Optimizations |-> optimizations,
                    EstimatedReduction |-> estimateReduction(optimizations)]>>
    /\ UNCHANGED <<mode, original, ctx, optimizations, idx, run, previous, log,
                   scoreIssues, score, parsed, applyName, applyTexts>>
    /\ UNCHANGED unitVars

Next == OptimizeContent \/ OptimizeAgain \/ LoopStep \/ Return

Spec == Init /\ [][Next]_vars

(***************************************************************************)
(* calculateScore applied to a growing list of findings                    *)
(***************************************************************************)
AddFinding ==
    /\ Len(scoreIssues) < MaxIssues
    /\ \E sev \in Severities :
          scoreIssues' = Append(scoreIssues, Issue("X", sev, "any", 0, FALSE))
    /\ score' = calculateScore(scoreIssues')
    /\ UNCHANGED <<mode, parsed, applyName, applyTexts>>
    /\ UNCHANGED pipelineVars
    /\ UNCHANGED unitVars

NextScore == AddFinding

SpecScore == Init /\ [][NextScore]_vars

(***************************************************************************)
(* parseDockerfile applied to the lines of a text                          *)
(***************************************************************************)
ParseText ==
    /\ parsed = <<>>
    /\ \E t \in Texts :
          LET lines == Split(t, "\n")
          IN parsed' = <<[lines |-> lines, pdf |-> parseDockerfile(lines)]>>
    /\ UNCHANGED <<mode, scoreIssues, score, applyName, applyTexts>>
    /\ UNCHANGED pipelineVars
    /\ UNCHANGED unitVars

NextParse == ParseText

SpecParse == Init /\ [][NextParse]_vars

(***************************************************************************)
(* A strategy's Apply called repeatedly, each time on the text the call    *)
(* before returned                                                         *)
(***************************************************************************)
StartApply ==
    /\ applyTexts = <<>>
    /\ \E name \in {Strategies[k] : k \in 1..Len(Strategies)}, t \in Texts :
          /\ applyName' = name
          /\ applyTexts' = <<t>>
    /\ UNCHANGED <<mode, scoreIssues, score, parsed>>
    /\ UNCHANGED pipelineVars
    /\ UNCHANGED unitVars

ApplyOnce ==
    /\ Len(applyTexts) \in 1..MaxApplies
    /\ applyTexts' = Append(applyTexts,
                            Apply(applyName, NewContext(applyTexts[Len(applyTexts)])).text)
    /\ UNCHANGED <<mode, scoreIssues, score, parsed, applyName>>
    /\ UNCHANGED pipelineVars
    /\ UNCHANGED unitVars

NextApply == StartApply \/ ApplyOnce

SpecApply == Init /\ [][NextApply]_vars

\* the base-image swap's Apply alone, called repeatedly in the same way
StartSwap ==
    /\ applyTexts = <<>>
    /\ \E t \in Texts :
          /\ applyName' = "base-image-optimization"
          /\ applyTexts' = <<t>>
    /\ UNCHANGED <<mode, scoreIssues, score, parsed>>
    /\ UNCHANGED pipelineVars
    /\ UNCHANGED unitVars

NextSwap == StartSwap \/ ApplyOnce

SpecSwap == Init /\ [][NextSwap]_vars

(***************************************************************************)
(* Analyzer.AnalyzeContent applied to a text                               *)
(***************************************************************************)
AnalyzeText ==
    /\ analysed = <<>>
    /\ \E t \in AnalyzeTexts :
          LET lines == Split(t, "\n")
          IN analysed' = <<[lines |-> lines, pdf |-> parseDockerfile(lines),
                            issues |-> AnalyzeContent(t).Issues]>>
    /\ UNCHANGED <<mode, scoreIssues, score, parsed, applyName, applyTexts, strategyCall>>
    /\ UNCHANGED pipelineVars
    /\ UNCHANGED <<runInsts, runIssues, estOpts, estimate, dioIssues, hadolintIssues, merged, policyInput, policyResult>>

SpecAnalyze == Init /\ [][AnalyzeText]_vars

(***************************************************************************)
(* CombineRunRule.Check applied to a growing list of instructions          *)
(***************************************************************************)
AddInst ==
    /\ Len(runInsts) < MaxInsts
    /\ \E cmd \in {"RUN", "COPY"} :
          runInsts' = Append(runInsts, [Command |-> cmd, Args |-> "x",
                                        Line |-> Len(runInsts) + 1,
                                        Raw |-> cmd \o " x"])
    /\ runIssues' = CombineRunRule([Instructions |-> runInsts'])
    /\ UNCHANGED <<mode, scoreIssues, score, parsed, applyName, applyTexts, strategyCall>>
    /\ UNCHANGED pipelineVars
    /\ UNCHANGED <<analysed, estOpts, estimate, dioIssues, hadolintIssues, merged, policyInput, policyResult>>

SpecCombineRun == Init /\ [][AddInst]_vars

(***************************************************************************)
(* estimateReduction applied to a growing list of optimizations            *)
(***************************************************************************)
AddOptimization ==
    /\ Len(estOpts) < MaxOpts
    /\ \E cat \in {"base-image", "multi-stage", "layer-optimization", "cleanup",
                  "security"},
          applied \in BOOLEAN :
          estOpts' = Append(estOpts,
                            [Optimization("OPT", cat, 1, TRUE) EXCEPT !.Applied = applied])
    /\ estimate' = estimateReduction(estOpts')
    /\ UNCHANGED <<mode, scoreIssues, score, parsed, applyName, applyTexts, strategyCall>>
    /\ UNCHANGED pipelineVars
    /\ UNCHANGED <<analysed, runInsts, runIssues, dioIssues, hadolintIssues, merged, policyInput, policyResult>>

SpecEstimate == Init /\ [][AddOptimization]_vars

(***************************************************************************)
(* mergeHadolintIssues applied to growing lists of findings                *)
(***************************************************************************)
AddDioIssue ==
    /\ Len(dioIssues) < MaxMerge
    /\ \E cat \in {"base-image", "best-practice"}, line \in 0..2 :
          dioIssues' = Append(dioIssues, Issue("DIO", "medium", cat, line, FALSE))
    /\ merged' = mergeHadolintIssues(dioIssues', hadolintIssues)
    /\ UNCHANGED hadolintIssues
    /\ UNCHANGED <<mode, scoreIssues, score, parsed, applyName, applyTexts, strategyCall>>
    /\ UNCHANGED pipelineVars
    /\ UNCHANGED <<analysed, runInsts, runIssues, estOpts, estimate, policyInput, policyResult>>

AddHadolintIssue ==
    /\ Len(hadolintIssues) < MaxMerge
    /\ \E id \in {"HL-DL3007", "HL-DL3025", "HL-DL3042"}, line \in 0..2 :
          hadolintIssues' = Append(hadolintIssues, Issue(id, "low", "hadolint", line, FALSE))
    /\ merged' = mergeHadolintIssues(dioIssues, hadolintIssues')
    /\ UNCHANGED dioIssues
    /\ UNCHANGED <<mode, scoreIssues, score, parsed, applyName, applyTexts, strategyCall>>
    /\ UNCHANGED pipelineVars
    /\ UNCHANGED <<analysed, runInsts, runIssues, estOpts, estimate, policyInput, policyResult>>

NextMerge == AddDioIssue \/ AddHadolintIssue

SpecMerge == Init /\ [][NextMerge]_vars

(***************************************************************************)
(* Enforcer.Evaluate applied to a configuration and a pipeline result      *)
(***************************************************************************)
EvaluatePolicy ==
    /\ policyInput = <<>>
    /\ \E config \in PolicyConfigs, res \in PipelineResults :
          /\ policyInput' = <<[config |-> config, result |-> res]>>
          /\ policyResult' = <<Evaluate(config, res)>>
    /\ UNCHANGED <<mode, scoreIssues, score, parsed, applyName, applyTexts, strategyCall>>
    /\ UNCHANGED pipelineVars
    /\ UNCHANGED <<analysed, runInsts, runIssues, estOpts, estimate, dioIssues, hadolintIssues, merged>>

SpecPolicy == Init /\ [][EvaluatePolicy]_vars

(***************************************************************************)
(* One strategy's Analyze and Apply called on the context of a text        *)
(***************************************************************************)
CallStrategy ==
    /\ strategyCall = <<>>
    /\ \E c \in {<<"combine-layers", StrategyPool.cl>>,
                  <<"multi-stage-build", StrategyPool.ms>>,
                  <<"non-root-user", StrategyPool.nr>>,
                  <<"workdir", StrategyPool.wd>>} :
          \E t \in StrategyTexts(c[2]) :
             LET call(context) ==
                     <<[name |-> c[1], text |-> t,
                        fired |-> Len(Analyze(c[1], context)) = 1,
                        res |-> Apply(c[1], context)]>>
             IN strategyCall' = call(NewContext(t))
    /\ UNCHANGED <<mode, scoreIssues, score, parsed, applyName, applyTexts>>
    /\ UNCHANGED pipelineVars
    /\ UNCHANGED <<analysed, runInsts, runIssues, estOpts, estimate, dioIssues, hadolintIssues, merged, policyInput, policyResult>>

SpecStrategy == Init /\ [][CallStrategy]_vars

(***************************************************************************)
(* Properties                                                              *)
(***************************************************************************)

\* C1: for every list of findings the score lies in [0, 100], and appending a
\* finding to the list never increases the score.
C1_ScoreBoundedAndMonotone ==
    /\ [](score \in 0..100)
    /\ [][Len(scoreIssues') = Len(scoreIssues) + 1 => score' <= score]_vars

\* C1 witness: a list whose weights add up to more than 100, scored at the clamp
C1_Witness == score = 0 /\ ScoreLoop(scoreIssues, 1, 100) < 0

\* the number of findings of severity sev in issues
CountSeverity(issues, sev) ==
    Cardinality({k \in 1..Len(issues) : issues[k].Severity = sev})

\* the issues with positions i and j exchanged
Swapped(issues, i, j) == [issues EXCEPT ![i] = issues[j], ![j] = issues[i]]

\* C2: the score is 100 minus the summed severity weights (critical 20, high 15,
\* medium 10, low 5, info 2) clamped to [0, 100], and exchanging any two
\* findings of the list leaves it unchanged (so every permutation does).
C2_ScoreIsClampedWeightSum ==
    LET total == 20 * CountSeverity(scoreIssues, "critical")
                   + 15 * CountSeverity(scoreIssues, "high")
                   + 10 * CountSeverity(scoreIssues, "medium")
                   + 5 * CountSeverity(scoreIssues, "low")
                   + 2 * CountSeverity(scoreIssues, "info")
        raw == 100 - total
    IN /\ score = (IF raw < 0 THEN 0 ELSE IF raw > 100 THEN 100 ELSE raw)
       /\ \A i, j \in 1..Len(scoreIssues) :
             calculateScore(Swapped(scoreIssues, i, j)) = score

\* C2 witness: a list mixing all five severities
C2_Witness ==
    /\ \A sev \in Severities : CountSeverity(scoreIssues, sev) >= 1
    /\ score = 48

\* the log entries of the iterations in which Analyze returned an optimization:
\* the k-th of them belongs to the k-th collected optimization
FiredLog == SelectSeq(log, LAMBDA e : e.fired)

AnyApplied(opts) == \E k \in 1..Len(opts) : opts[k].Applied

\* C3: an optimization is marked applied only if the mode is autofix, the
\* candidate is autoFixable and that strategy's Apply returned success; in
\* suggest mode no optimization is ever marked applied.
C3_AppliedOnlyOnSuccess ==
    /\ Len(FiredLog) = Len(optimizations)
    /\ \A k \in 1..Len(optimizations) :
          optimizations[k].Applied =>
             /\ mode = ModeAutoFix
             /\ optimizations[k].AutoFixable
             /\ FiredLog[k].called
             /\ FiredLog[k].ok
    /\ (mode = ModeSuggest => ~AnyApplied(optimizations))
    /\ (pc = "done" => result[1].Optimizations = optimizations)

\* C3 witness: a finished autofix run with an applied optimization next to one
\* that was not applied
C3_Witness ==
    /\ pc = "done"
    /\ mode = ModeAutoFix
    /\ AnyApplied(result[1].Optimizations)
    /\ \E k \in 1..Len(result[1].Optimizations) : ~result[1].Optimizations[k].Applied

\* C4: if no optimization of the result is marked applied (as in every
\* suggest-mode run), the final text is the original text.
C4_UnchangedUnlessApplied ==
    /\ (pc \in {"loop", "done"} /\ ~AnyApplied(optimizations))
          => ctx.CurrentContent = original
    /\ (pc = "done" /\ ~AnyApplied(result[1].Optimizations))
          => result[1].OptimizedDockerfile = result[1].OriginalDockerfile

\* C4 witness: a finished suggest-mode run in which strategies fired
C4_Witness ==
    /\ pc = "done"
    /\ mode = ModeSuggest
    /\ Len(result[1].Optimizations) >= 2
    /\ result[1].OptimizedDockerfile = result[1].OriginalDockerfile

\* the iteration about to run calls Apply and Apply fails
ApplyFailsNow ==
    /\ pc = "loop"
    /\ idx <= Len(Strategies)
    /\ mode = ModeAutoFix
    /\ LET a == Analyze(Strategies[idx], ctx)
       IN /\ Len(a) = 1
          /\ a[1].AutoFixable
          /\ ~Apply(Strategies[idx], ctx).ok

\* C5: when Apply fails in an autofix run the working text and the line list
\* stay as they were, the candidate is recorded with applied = false, and the
\* loop goes on to the next strategy: every strategy of the registry gets its
\* iteration, each on the context the iteration before left.
C5_FailedApplyIsDiscarded ==
    /\ [][ApplyFailsNow =>
            /\ ctx' = ctx
            /\ optimizations' = Append(optimizations, Analyze(Strategies[idx], ctx)[1])
            /\ ~optimizations'[Len(optimizations')].Applied
            /\ pc' = "loop"
            /\ idx' = idx + 1]_vars
    /\ [](pc = "done" =>
            /\ Len(log) = Len(Strategies)
            /\ \A k \in 1..Len(log) : log[k].name = Strategies[k]
            /\ \A k \in 1..(Len(log) - 1) :
                  (log[k].called /\ ~log[k].ok) => log[k + 1].before = log[k].before)

\* C5 witness: a finished run in which an Apply failed and a later strategy
\* was applied
C5_Witness ==
    /\ pc = "done"
    /\ \E k \in 1..Len(log) :
          /\ log[k].called /\ ~log[k].ok
          /\ \E m \in (k + 1)..Len(log) : log[m].called /\ log[m].ok

\* C6: autofix is idempotent: an autofix run on the final text of an autofix
\* run returns that text unchanged.
C6_AutofixIdempotent ==
    (pc = "done" /\ mode = ModeAutoFix /\ previous # <<>>)
       => result[1].OptimizedDockerfile = previous[1].OptimizedDockerfile

\* C8: in an autofix run every strategy decides on the current working text:
\* its Analyze returns what it would return on a context freshly built (parsed
\* and analyzed) from the text the iteration starts with.
C8_AnalyzeSeesCurrentText ==
    (mode = ModeAutoFix /\ Len(log) > 0) =>
       LET e == log[Len(log)]
       IN (Len(Analyze(e.name, e.before)) = 1)
             = (Len(Analyze(e.name, NewContext(e.before.CurrentContent))) = 1)

\* C7: the Cleanup strategy's Apply is idempotent: applying it to its own
\* output returns that output (no second purge line, no second flag).
C7_CleanupIdempotent ==
    (applyName = "cleanup" /\ Len(applyTexts) >= 3)
       => applyTexts[3] = applyTexts[2]

\* concatenation of the Instructions of stages k..Len(stages)
RECURSIVE StageInstructions(_, _)
StageInstructions(stages, k) ==
    IF k > Len(stages) THEN <<>>
    ELSE stages[k].Instructions \o StageInstructions(stages, k + 1)

\* C9: the Instructions of the parsed file are the concatenation, in stage
\* order, of the stages' Instructions; instructions before the first FROM are
\* nowhere in the model.
C9_InstructionsAreStageConcat ==
    parsed # <<>> =>
       parsed[1].pdf.Instructions = StageInstructions(parsed[1].pdf.Stages, 1)

\* the FROM instructions among insts, in order
FromInstructions(insts) == SelectSeq(insts, LAMBDA inst : inst.Command = "FROM")

\* the first whitespace-delimited field of args, lower-cased
LowerFirstField(args) ==
    LET b == FirstNonSpace(args, 1)
    IN ToLower(Sub(args, b, FieldEnd(args, b) - 1))

\* C10: the numbers of stages, of base images and of FROM instructions are
\* equal, HasMultiStage holds iff that number is at least 2, and the i-th base
\* image is the lower-cased first field of the i-th FROM's arguments.
C10_StagesMatchFroms ==
    parsed # <<>> =>
       LET pdf == parsed[1].pdf
           froms == FromInstructions(pdf.Instructions)
       IN /\ Len(pdf.Stages) = Len(froms)
          /\ Len(pdf.BaseImages) = Len(froms)
          /\ pdf.HasMultiStage = (Len(froms) >= 2)
          /\ \A i \in 1..Len(froms) :
                /\ pdf.BaseImages[i] = LowerFirstField(froms[i].Args)
                /\ pdf.Stages[i].BaseImage = pdf.BaseImages[i]

\* C10 witness: a text with two FROM lines, one of them with upper-case letters
C10_Witness ==
    /\ parsed # <<>>
    /\ Len(parsed[1].pdf.Stages) = 2
    /\ parsed[1].pdf.HasMultiStage
    /\ parsed[1].pdf.BaseImages[1] = "node:18"
    /\ parsed[1].lines[1] = "FROM Node:18"

\* the number of logical lines among lines[i..] that match the instruction
\* shape: blank and comment lines are skipped, and a line together with the
\* continuation lines joined onto it counts once
RECURSIVE LogicalInstructions(_, _)
LogicalInstructions(lines, i) ==
    IF i > Len(lines) THEN 0
    ELSE LET trimmed == TrimSpace(lines[i])
         IN IF trimmed = "" \/ HasPrefix(trimmed, "#")
            THEN LogicalInstructions(lines, i + 1)
            ELSE LET jc == JoinContinuation(lines, trimmed, i)
                 IN (IF Len(instructionRegex(jc[1])) = 2 THEN 1 ELSE 0)
                       + LogicalInstructions(lines, jc[2] + 1)

\* C11: the number of parsed instructions equals the number of non-blank,
\* non-comment, continuation-joined logical lines that match the instruction
\* shape; a line joined onto its predecessor is not parsed again.
C11_InstructionsAreLogicalLines ==
    analysed # <<>> =>
       Len(analysed[1].pdf.Instructions) = LogicalInstructions(analysed[1].lines, 1)

\* the position in DefaultRules of the rule that emits findings with this ID
RuleIndex(id) ==
    CASE id = "DIO001" -> 1
      [] id = "DIO002" -> 2
      [] id = "DIO003" -> 3
      [] id = "DIO004" -> 4
      [] id \in {"DIO005", "DIO005-pip"} -> 5
      [] id = "DIO006" -> 6
      [] id = "DIO007" -> 7
      [] id = "DIO008" -> 8
      [] id = "DIO009" -> 9
      [] id = "DIO010" -> 10
      [] id = "DIO011" -> 11
      [] id = "DIO012" -> 12
      [] OTHER -> 0

\* what the rule at position r of DefaultRules returns on its own
RuleFindings(r, pdf) ==
    CASE r = 1 -> LatestTagRule(pdf)
      [] r = 2 -> MissingDockerignoreRule(FALSE)
      [] r = 3 -> TooManyLayersRule(pdf)
      [] r = 4 -> AptGetRule(pdf)
      [] r = 5 -> CacheNotCleanedRule(pdf)
      [] r = 6 -> RootUserRule(pdf)
      [] r = 7 -> CopyAllRule(pdf)
      [] r = 8 -> NoMultiStageRule(pdf)
      [] r = 9 -> PinVersionRule(pdf)
      [] r = 10 -> CombineRunRule(pdf)
      [] r = 11 -> WorkdirRule(pdf)
      [] r = 12 -> HealthcheckRule(pdf)

\* C12: the findings of an analysis are in registry order (no finding of a
\* later-registered rule precedes one of an earlier-registered rule), and the
\* findings of each rule are the ones it returns, in the order it emits them.
C12_FindingsInRegistryOrder ==
    analysed # <<>> =>
       LET issues == analysed[1].issues
       IN /\ \A i, j \in 1..Len(issues) :
                i < j => (/\ RuleIndex(issues[i].ID) >= 1
                          /\ RuleIndex(issues[i].ID) <= RuleIndex(issues[j].ID))
          /\ \A r \in 1..12 :
                SelectSeq(issues, LAMBDA x : RuleIndex(x.ID) = r)
                   = RuleFindings(r, analysed[1].pdf)

\* C12 witness: an analysis with findings of at least four rules, two of them
\* from the same rule on different lines
C12_Witness ==
    /\ analysed # <<>>
    /\ LET issues == analysed[1].issues
       IN /\ Cardinality({RuleIndex(issues[k].ID) : k \in 1..Len(issues)}) >= 4
          /\ \E i, j \in 1..Len(issues) :
                i < j /\ issues[i].ID = issues[j].ID /\ issues[i].Line < issues[j].Line

\* the contribution of an applied optimization of this category
Contribution(cat) ==
    CASE cat = "base-image" -> 60
      [] cat = "multi-stage" -> 50
      [] cat = "layer-optimization" -> 15
      [] cat = "cleanup" -> 20
      [] OTHER -> 5

\* sum of the contributions of the applied optimizations among opts[i..]
RECURSIVE AppliedSum(_, _)
AppliedSum(opts, i) ==
    IF i > Len(opts) THEN 0
    ELSE (IF opts[i].Applied THEN Contribution(opts[i].Category) ELSE 0)
            + AppliedSum(opts, i + 1)

\* C13: the label is "N/A (suggest mode)" iff no optimization is applied, in
\* either mode; otherwise it is "~N% estimated reduction" with N the smaller
\* of 85 and the sum of the applied optimizations' contributions, and
\* 5 <= N <= 85.
C13_LabelFromAppliedOnly ==
    LET sum == AppliedSum(estOpts, 1)
        N == IF sum < 85 THEN sum ELSE 85
        noneApplied == \A k \in 1..Len(estOpts) : ~estOpts[k].Applied
    IN /\ (estimate = "N/A (suggest mode)") = noneApplied
       /\ ~noneApplied =>
             /\ N >= 5 /\ N <= 85
             /\ estimate = "~" \o Itoa(N) \o "% estimated reduction"

\* C13 witness: applied base-image and multi-stage optimizations (sum 110) with
\* one that is not applied; the label shows the cap
C13_Witness ==
    /\ \E k \in 1..Len(estOpts) : ~estOpts[k].Applied
    /\ AppliedSum(estOpts, 1) = 110
    /\ estimate = "~85% estimated reduction"

\* the fixed deduplication map, as pairs <<rule code, category>>
DedupPairs ==
    {<<"DL3007", "base-image">>, <<"DL3008", "version-pinning">>,
     <<"DL3009", "cleanup">>, <<"DL3015", "apt-get">>,
     <<"DL3025", "best-practice">>, <<"DL3020", "best-practice">>}

\* the external finding x duplicates a core finding: its rule code is in the
\* map and a core finding of the mapped category is on the same positive line
Duplicates(core, x) ==
    \E pair \in DedupPairs :
       /\ x.ID = "HL-" \o pair[1]
       /\ x.Line > 0
       /\ \E k \in 1..Len(core) : core[k].Line = x.Line /\ core[k].Category = pair[2]

\* C14: the merged list is the core findings, in their order, followed by the
\* external findings that duplicate no core finding, in their order.
C14_MergeKeepsCoreDropsDuplicates ==
    merged = dioIssues
                \o SelectSeq(hadolintIssues, LAMBDA x : ~Duplicates(dioIssues, x))

\* C14 witness: two external findings with mapped rule codes, one dropped and
\* one kept because the core finding of its category is on another line
C14_Witness ==
    /\ Len(dioIssues) = 2 /\ Len(hadolintIssues) = 2
    /\ Len(merged) = 3
    /\ \A k \in 1..2 : hadolintIssues[k].ID \in {"HL-DL3007", "HL-DL3025"}
    /\ \E k \in 1..2 : Duplicates(dioIssues, hadolintIssues[k])
    /\ \E k \in 1..2 : /\ ~Duplicates(dioIssues, hadolintIssues[k])
                       /\ hadolintIssues[k].Line > 0

\* C15: the policy result's Passed flag is true iff every rule recorded in its
\* Rules list has Passed = true.
C15_PassedIffAllRulesPassed ==
    policyResult # <<>> =>
       policyResult[1].Passed
          = (\A k \in 1..Len(policyResult[1].Rules) : policyResult[1].Rules[k].Passed)

\* C15 witness: an evaluation that records all seven rules, with a failed one
\* after a passed one
C15_Witness ==
    /\ policyResult # <<>>
    /\ Len(policyResult[1].Rules) = 7
    /\ ~policyResult[1].Passed
    /\ policyResult[1].Rules[1].Passed
    /\ \E k \in 2..6 : ~policyResult[1].Rules[k].Passed
    /\ policyResult[1].Rules[7].Passed

\* the image reference has no tag or the tag latest, and is not scratch
Unpinned(ref) ==
    /\ ref # "scratch"
    /\ (~Contains(ref, ":") \/ HasSuffix(ref, ":latest"))

\* the number of findings with this ID anchored at this line
FindingsAt(issues, id, line) ==
    Cardinality({i \in 1..Len(issues) : issues[i].ID = id /\ issues[i].Line = line})

NonRootUsers(insts) ==
    SelectSeq(insts, LAMBDA inst : /\ inst.Command = "USER"
                                   /\ TrimSpace(inst.Args) # "root"
                                   /\ TrimSpace(inst.Args) # "0")

\* the findings with this ID
FindingsOf(issues, id) == SelectSeq(issues, LAMBDA x : x.ID = id)

\* C17: DIO006 emits exactly one finding iff no USER instruction has a trimmed
\* argument other than root and 0, and none otherwise.
C17_RootUserFinding ==
    analysed # <<>> =>
       Len(FindingsOf(analysed[1].issues, "DIO006"))
          = IF Len(NonRootUsers(analysed[1].pdf.Instructions)) = 0 THEN 1 ELSE 0

\* C17 witness: USER app followed by USER root: the non-root USER suppresses
\* the finding although the last USER names root
C17_Witness ==
    /\ analysed # <<>>
    /\ Len(analysed[1].lines) = 3
    /\ analysed[1].lines[2] = "USER app"
    /\ analysed[1].lines[3] = "USER root"
    /\ Len(FindingsOf(analysed[1].issues, "DIO006")) = 0

\* the known build-tool substrings
BuildTools ==
    {"npm run build", "go build", "mvn", "gradle", "make", "cargo build",
     "dotnet publish", "gcc", "g++"}

\* some RUN instruction's argument contains a build-tool substring (letter
\* case is not significant)
RunsBuildTool(insts) ==
    \E k \in 1..Len(insts) :
       /\ insts[k].Command = "RUN"
       /\ \E tool \in BuildTools : Contains(ToLower(insts[k].Args), tool)

\* C19: DIO008 emits exactly one finding iff the file is not multi-stage and
\* some RUN instruction's argument contains a build-tool substring, and none
\* otherwise.
C19_NoMultiStageFinding ==
    analysed # <<>> =>
       Len(FindingsOf(analysed[1].issues, "DIO008"))
          = IF ~analysed[1].pdf.HasMultiStage
                  /\ RunsBuildTool(analysed[1].pdf.Instructions)
            THEN 1 ELSE 0

\* C19 witness: a single-stage file whose only build-tool text is in a COPY
\* instruction: no finding
C19_Witness ==
    /\ analysed # <<>>
    /\ ~analysed[1].pdf.HasMultiStage
    /\ \E k \in 1..Len(analysed[1].pdf.Instructions) :
          /\ analysed[1].pdf.Instructions[k].Command = "COPY"
          /\ Contains(ToLower(analysed[1].pdf.Instructions[k].Args), "make")
    /\ Len(analysed[1].pdf.Stages) = 1
    /\ Len(FindingsOf(analysed[1].issues, "DIO008")) = 0

\* position p starts a maximal run of consecutive RUN instructions
RunStartsAt(insts, p) ==
    /\ insts[p].Command = "RUN"
    /\ (p = 1 \/ insts[p - 1].Command # "RUN")

\* the length of the run of RUN instructions that begins at position p
RECURSIVE RunLength(_, _)
RunLength(insts, p) ==
    IF p > Len(insts) \/ insts[p].Command # "RUN" THEN 0
    ELSE 1 + RunLength(insts, p + 1)

\* the source lines of the first RUN of the maximal runs of length >= 3
LongRunLines(insts) ==
    {insts[p].Line : p \in {q \in 1..Len(insts) :
                               RunStartsAt(insts, q) /\ RunLength(insts, q) >= 3}}

\* C18: DIO010 emits exactly one finding for each maximal run of three or more
\* consecutive RUN instructions, whatever its length, anchored at the line of
\* the run's first RUN, and nothing for shorter runs.
C18_OneFindingPerLongRun ==
    /\ \A k \in 1..Len(runIssues) : runIssues[k].ID = "DIO010"
    /\ Len(runIssues) = Cardinality(LongRunLines(runInsts))
    /\ {runIssues[k].Line : k \in 1..Len(runIssues)} = LongRunLines(runInsts)

\* the image reference of a FROM line (its second field, lower-cased) and the
\* image name (the reference up to its first colon)
ImageRef(line) == ToLower(Fields(line)[2])
ImageName(ref) == IF Contains(ref, ":") THEN Sub(ref, 1, Index(ref, ":") - 1) ELSE ref

\* a FROM line the base-image swap rewrites: its image name is in the mapping
\* table and its reference holds neither slim, alpine nor distroless and is
\* not scratch
SwappableFrom(line) ==
    /\ Len(Fields(line)) >= 2
    /\ ToUpper(Fields(line)[1]) = "FROM"
    /\ ImageName(ImageRef(line)) \in DOMAIN slimAlternatives
    /\ \A w \in {"slim", "alpine", "distroless"} : ~Contains(ImageRef(line), w)
    /\ ImageRef(line) # "scratch"

\* the line with its image reference replaced by the mapped alternative
SwappedLine(line) ==
    Join([Fields(line) EXCEPT ![2] = slimAlternatives[ImageName(ImageRef(line))]], " ")

\* before and after are the texts around one call of the swap's apply
SwapsFirstFromOnly(before, after) ==
    LET old == Split(before, "\n")
        new == Split(after, "\n")
        matching == {i \in 1..Len(old) : SwappableFrom(old[i])}
    IN IF matching = {}
       THEN /\ after = before
            /\ ~Apply("base-image-optimization", NewContext(before)).ok
       ELSE LET first == CHOOSE i \in matching : \A m \in matching : i <= m
            IN /\ Apply("base-image-optimization", NewContext(before)).ok
               /\ Len(new) = Len(old)
               /\ new[first] = SwappedLine(old[first])
               /\ \A i \in 1..Len(old) : i # first => new[i] = old[i]

\* C20: the base-image swap's apply rewrites only the first FROM line that
\* qualifies, replacing its image reference by the mapped alternative, and
\* leaves every other line unchanged; when no FROM line qualifies it fails
\* and returns the text unchanged.
C20_SwapRewritesFirstFromOnly ==
    applyName = "base-image-optimization" =>
       \A k \in 1..(Len(applyTexts) - 1) :
          SwapsFirstFromOnly(applyTexts[k], applyTexts[k + 1])

\* C20 witness: two qualifying FROM lines, the first rewritten and the second
\* left as it was
C20_Witness ==
    /\ applyName = "base-image-optimization"
    /\ Len(applyTexts) >= 2
    /\ applyTexts[1] = "FROM Node:18\nFROM ubuntu\nRUN make"
    /\ applyTexts[2] = "FROM node:lts-alpine\nFROM ubuntu\nRUN make"

\* the instruction starting at line i with the lines that continue it (a
\* line ending in a backslash goes on with the next one), and the index of
\* the line after it
RECURSIVE LogicalLine(_, _, _)
LogicalLine(lines, i, acc) ==
    LET t == TrimSpace(lines[i])
        piece == TrimSpace(TrimSuffix(t, "\\"))
    IN IF HasSuffix(t, "\\") /\ i < Len(lines)
       THEN LogicalLine(lines, i + 1, acc \o piece \o " ")
       ELSE <<acc \o piece, i + 1>>

\* the instructions of a recipe, blank and comment lines left out
RECURSIVE Recipe(_, _)
Recipe(lines, i) ==
    IF i > Len(lines) THEN <<>>
    ELSE LET t == TrimSpace(lines[i])
             rest(ll) == <<ll[1]>> \o Recipe(lines, ll[2])
         IN IF t = "" \/ HasPrefix(t, "#") THEN Recipe(lines, i + 1)
            ELSE rest(LogicalLine(lines, i, ""))

\* the commands of one instruction: a RUN gives the commands its body chains
\* with &&, any other instruction gives itself
InstructionCommands(inst) ==
    IF IsRunLine(inst)
    THEN LET parts == Split(Sub(inst, 5, Len(inst)), "&&")
         IN [k \in 1..Len(parts) |-> [run |-> TRUE, text |-> TrimSpace(parts[k])]]
    ELSE <<[run |-> FALSE, text |-> inst]>>

RECURSIVE RecipeCommands(_, _)
RecipeCommands(insts, i) ==
    IF i > Len(insts) THEN <<>>
    ELSE InstructionCommands(insts[i]) \o RecipeCommands(insts, i + 1)

Commands(text) == RecipeCommands(Recipe(Split(text, "\n"), 1), 1)

\* every line ending in a backslash is followed by an indented line
Continued(lines) ==
    \A i \in 1..Len(lines) :
       HasSuffix(TrimSpace(lines[i]), "\\") =>
          i < Len(lines) /\ HasPrefix(lines[i + 1], " ")

\* C21: run-combination's apply keeps the commands of the recipe and their
\* order: what runs under a RUN before (the continuation lines of a
\* multi-line RUN included) runs under a RUN after, in the same order, every
\* other instruction stays where it was, and no two RUN instructions follow
\* each other in the result.
C21_CombineKeepsCommands ==
    (/\ strategyCall # <<>>
     /\ strategyCall[1].name = "combine-layers"
     /\ Continued(Split(strategyCall[1].text, "\n"))) =>
       LET before == strategyCall[1].text
           after == strategyCall[1].res.text
           insts == Recipe(Split(after, "\n"), 1)
       IN /\ strategyCall[1].res.ok
          /\ Commands(after) = Commands(before)
          /\ \A k \in 1..(Len(insts) - 1) : ~(IsRunLine(insts[k]) /\ IsRunLine(insts[k + 1]))

\* some RUN instruction of the text has a build tool in its argument
RunHasBuildTool(text) ==
    LET insts == Recipe(Split(text, "\n"), 1)
    IN \E k \in 1..Len(insts) :
          /\ IsRunLine(insts[k])
          /\ \E tool \in strategyBuildIndicators :
                Contains(ToLower(Sub(insts[k], 5, Len(insts[k]))), tool)

\* C22: the multi-stage strategy's analyze returns a candidate only when the
\* text is not multi-stage already and the argument of some RUN instruction
\* holds a build tool; a build tool named only in a comment or in another
\* instruction does not make it fire.
C22_MultiStageFiresOnRunOnly ==
    (/\ strategyCall # <<>>
     /\ strategyCall[1].name = "multi-stage-build"
     /\ strategyCall[1].fired) =>
       /\ Len(parseDockerfile(Split(strategyCall[1].text, "\n")).Stages) <= 1
       /\ RunHasBuildTool(strategyCall[1].text)

\* the substrings that mark an ecosystem
Markers(lang) ==
    CASE lang = "node" -> {"node", "npm"}
      [] lang = "go" -> {"golang", "go build"}
      [] lang = "python" -> {"python", "pip"}
      [] lang = "rust" -> {"rust", "cargo"}
      [] lang = "java" -> {"java", "mvn", "gradle"}
      [] lang = "ruby" -> {"ruby", "gem"}
      [] lang = "dotnet" -> {"dotnet"}

Marked(text, lang) == \E m \in Markers(lang) : Contains(ToLower(text), m)

Priority == <<"node", "go", "python", "rust", "java">>

\* the first ecosystem of the priority order with a marker anywhere in the text
PriorityLanguage(text) ==
    LET hits == {k \in 1..Len(Priority) : Marked(text, Priority[k])}
    IN IF hits = {} THEN ""
       ELSE Priority[CHOOSE k \in hits : \A m \in hits : k <= m]

\* C23: ecosystem detection follows a fixed priority over the whole text
\* (node, go, python, rust, java): the multi-stage strategy's apply builds
\* the document of the first ecosystem in that order with a marker anywhere
\* in the text, also when the marker of a later ecosystem is on an earlier
\* line.
C23_DetectionByPriority ==
    (/\ strategyCall # <<>>
     /\ strategyCall[1].name = "multi-stage-build"
     /\ ~Marked(strategyCall[1].text, "ruby")
     /\ ~Marked(strategyCall[1].text, "dotnet")
     /\ PriorityLanguage(strategyCall[1].text) # "") =>
       /\ strategyCall[1].res.ok
       /\ strategyCall[1].res.text
             = getMultiStageTemplate(PriorityLanguage(strategyCall[1].text),
                                     Split(strategyCall[1].text, "\n"))

\* the image name of the build stage in each ecosystem's document
BuilderImage ==
    [node |-> "node", go |-> "golang", python |-> "python", rust |-> "rust",
     java |-> "eclipse-temurin"]

\* C24: when the multi-stage strategy's apply succeeds, the text it returns
\* is the whole new document: it parses to exactly two stages, is
\* multi-stage, and its first stage is based on the builder image of the
\* ecosystem detected in the text given; when no ecosystem is detected, or
\* the detected one has no document (ruby, dotnet), apply fails and returns
\* the text given.
C24_MultiStageApplyTwoStages ==
    (strategyCall # <<>> /\ strategyCall[1].name = "multi-stage-build") =>
       LET text == strategyCall[1].text
           res == strategyCall[1].res
           lang == detectLanguage(Split(text, "\n"))
           twoStages(pdf) ==
               /\ Len(pdf.Stages) = 2
               /\ pdf.HasMultiStage
               /\ HasPrefix(pdf.Stages[1].BaseImage, BuilderImage[lang])
       IN IF lang \in DOMAIN BuilderImage
          THEN /\ res.ok
               /\ twoStages(parseDockerfile(Split(res.text, "\n")))
          ELSE ~res.ok /\ res.text = text

\* C24 witness: the go recipe gives a two-stage document built on golang
C24_Witness ==
    /\ strategyCall # <<>>
    /\ strategyCall[1].name = "multi-stage-build"
    /\ strategyCall[1].text = "FROM golang:1.22\nRUN go build -o main ."
    /\ strategyCall[1].res.ok
    /\ parseDockerfile(Split(strategyCall[1].res.text, "\n")).Stages[1].BaseImage
          = "golang:1.22-alpine"

IsInstruction(line, keyword) == HasPrefixUpper(TrimSpace(line), keyword)

\* lines with the user-creation block and the USER line put in after line p
WithUserBlock(lines, p) ==
    SubSeq(lines, 1, p) \o userBlock \o SubSeq(lines, p + 1, Len(lines))

\* C25: with no USER instruction in the text, non-root insertion's apply puts
\* the user-creation block and the USER line right before the last CMD or
\* ENTRYPOINT, or, when there is none, at the end of the file after every
\* instruction of the text (also when the text does not end in a newline);
\* with a USER instruction it returns the text as it is.
C25_UserBlockPlacement ==
    (strategyCall # <<>> /\ strategyCall[1].name = "non-root-user") =>
       LET text == strategyCall[1].text
           res == strategyCall[1].res
           lines == Split(text, "\n")
           out == Split(res.text, "\n")
           cmds == {i \in 1..Len(lines) :
                       IsInstruction(lines[i], "CMD") \/ IsInstruction(lines[i], "ENTRYPOINT")}
       IN /\ res.ok
          /\ IF \E i \in 1..Len(lines) : IsInstruction(lines[i], "USER")
             THEN res.text = text
             ELSE IF cmds # {}
                  THEN out = WithUserBlock(lines,
                                           (CHOOSE c \in cmds : \A m \in cmds : c >= m) - 1)
                  ELSE \E p \in 0..Len(lines) :
                          /\ out = WithUserBlock(lines, p)
                          /\ \A i \in (p + 1)..Len(lines) : TrimSpace(lines[i]) = ""

\* C26: workdir insertion's apply puts one default WORKDIR line right after
\* the first FROM line and nowhere else, leaves every other line as it was,
\* and returns the text as it is when a WORKDIR instruction exists anywhere.
C26_WorkdirAfterFirstFrom ==
    (strategyCall # <<>> /\ strategyCall[1].name = "workdir") =>
       LET text == strategyCall[1].text
           res == strategyCall[1].res
           lines == Split(text, "\n")
           out == Split(res.text, "\n")
           froms == {i \in 1..Len(lines) : IsInstruction(lines[i], "FROM")}
       IN /\ res.ok
          /\ IF \E i \in 1..Len(lines) : IsInstruction(lines[i], "WORKDIR")
             THEN res.text = text
             ELSE froms # {} =>
                     LET first == CHOOSE f \in froms : \A m \in froms : f <= m
                     IN /\ Len(out) = Len(lines) + 1
                        /\ out[first + 1] = "WORKDIR /app"
                        /\ \A i \in 1..Len(lines) :
                              out[IF i <= first THEN i ELSE i + 1] = lines[i]

\* C26 witness: of two FROM lines only the first got a WORKDIR line
C26_Witness ==
    /\ strategyCall # <<>>
    /\ strategyCall[1].name = "workdir"
    /\ strategyCall[1].text = "FROM ubuntu\nFROM Node:18 AS build"
    /\ strategyCall[1].res.text = "FROM ubuntu\nWORKDIR /app\nFROM Node:18 AS build"

\* the working text after the loop iteration logged at position k
TextAfter(k) ==
    IF k < Len(log) THEN log[k + 1].before.CurrentContent ELSE ctx.CurrentContent

\* the position in optimizations of the candidate the iteration at k added
OptimizationOf(k) == Cardinality({m \in 1..k : log[m].fired})

\* C27: in an autofix run an optimization is marked applied only if its
\* strategy's apply changed the working text at that step.
C27_AppliedMeansChanged ==
    mode = ModeAutoFix =>
       \A k \in 1..Len(log) :
          (log[k].fired /\ optimizations[OptimizationOf(k)].Applied) =>
             TextAfter(k) # log[k].before.CurrentContent

\* C28: when an autofix run reports the non-root-user optimization
\* (OPT-USER) as applied, the text the run returns has a USER instruction
\* naming a user other than root or 0, so analysing it gives no root-user
\* finding (DIO006).
C28_AppliedUserFixRemovesFinding ==
    (/\ mode = ModeAutoFix
     /\ pc = "done"
     /\ \E k \in 1..Len(result[1].Optimizations) :
           /\ result[1].Optimizations[k].ID = "OPT-USER"
           /\ result[1].Optimizations[k].Applied) =>
       ~HasIssueID(AnalyzeContent(result[1].OptimizedDockerfile), "DIO006")

\* two RUN lines with nothing but blank and comment lines between them
HasRunBlock(lines) ==
    \E i, j \in 1..Len(lines) :
       /\ i < j
       /\ IsRunLine(TrimSpace(lines[i]))
       /\ IsRunLine(TrimSpace(lines[j]))
       /\ \A m \in (i + 1)..(j - 1) :
             TrimSpace(lines[m]) = "" \/ HasPrefix(TrimSpace(lines[m]), "#")

\* C29: the run-combination strategy's analyze returns a candidate exactly
\* when the text has a block of two or more consecutive RUN lines (blank and
\* comment lines between them ignored), wherever in the text the block is.
C29_CombineFiresOnAnyBlock ==
    (strategyCall # <<>> /\ strategyCall[1].name = "combine-layers") =>
       strategyCall[1].fired = HasRunBlock(Split(strategyCall[1].text, "\n"))

\* the source lines of the FROM instructions whose image reference is unpinned
UnpinnedFromLines(insts) ==
    {insts[k].Line : k \in {m \in 1..Len(insts) :
                               /\ insts[m].Command = "FROM"
                               /\ Unpinned(LowerFirstField(insts[m].Args))}}

\* C30: every unpinned-base-image finding (DIO001) is anchored at the line of
\* a FROM instruction that declares an unpinned image, never at a FROM whose
\* own reference is pinned, and distinct unpinned FROM instructions give
\* findings on distinct lines.
C30_FindingAnchoredAtItsFrom ==
    analysed # <<>> =>
       LET found == FindingsOf(analysed[1].issues, "DIO001")
           froms == UnpinnedFromLines(analysed[1].pdf.Instructions)
       IN /\ \A k \in 1..Len(found) : found[k].Line \in froms
          /\ Cardinality({found[k].Line : k \in 1..Len(found)}) = Cardinality(froms)

=============================================================================
